---- MODULE Spec2Model ----
(***************************************************************************)
(* clubdebillaresV8 (src/app.py): products, sales and purchase invoices    *)
(* kept in a SQLite store, with the restock, sale, purchase-invoice,       *)
(* batch-deletion and inventory-at-date operations.                        *)
(*                                                                         *)
(* Money is held in units of 1/Scale (four decimals, the precision of      *)
(* round(x, 4) at app.py:1004).  Invoice totals handed to                  *)
(* restock_with_invoice are whole currency units, so that the division by  *)
(* a quantity below 64 never lands on a rounding tie.                      *)
(* Time is a clock of ticks; TicksPerDay ticks make one calendar day.      *)
(***************************************************************************)
EXTENDS Integers, Sequences, FiniteSets, TLC

\* ------------------------------------------------------------------ bounds
MaxStock == 3
MaxSales == 1
MaxInvoices == 1
MaxItems == 2
MaxClock == 2
MaxUsers == 2
TicksPerDay == 2

\* --------------------------------------------------------------- constants
Scale == 10000
NoneVal == -1

\* ------------------------------------------------------------------ inputs
\* (the price 1.2360 has multiples that need rounding to 2 decimals)
Codes == {"A", "B"}
Pids == {1, 2}
Qtys == {0, 1, 3}
Totals == {NoneVal, 2}
Prices == {12360}
OptPrices == {NoneVal, 3 * Scale}
UnitCosts == {Scale}
NegTotals == {0 - 2}
NegPrices == {0 - 2 * Scale}
Ivas == {19}
Companies == {"", "ACME"}
RawNames == {<<"a">>, <<" ", "A">>, <<"b", " ">>, <<" ">>,
             <<"c", "o", "n", "d", "e", "o", "m", "a", "r">>}
Passwords == {<<"a", "b", "c">>, <<"a", "b", "c", "d">>,
              <<"1", "2", "2", "1", "3", "0", "@">>}
Salts == {1, 2}
Uids == 1 .. 2

VARIABLES
    products,       \* table products: id -> [code, stock, cost, price]
    next_id,        \* AUTOINCREMENT counter of products.id
    sales,          \* table sales, in insertion order
    invoices,       \* table invoices, in insertion order
    stock_check,    \* TRUE when table products carries CHECK(stock>=0)
    cur_items,      \* st.session_state["cur_items"]
    clock,          \* the wall clock (CURRENT_TIMESTAMP, datetime.now())
    last,           \* the last call: its name, its result, the page it rendered
    calls,          \* the calls running side by side: per process, its position and locals
    lock,           \* the process whose connection holds the write lock of the store, or 0
    auth_user,      \* st.session_state["auth_user"]
    page,           \* st.session_state["page"]
    shown,          \* the screen the last run of main rendered
    users,          \* table users: id -> [username, password_hash, password_salt, is_admin]
    next_uid,       \* AUTOINCREMENT counter of users.id
    ledger,         \* history: per product id, the stock movements applied to it
    snap            \* history: per elapsed day, the stock of each product at its end

vars == <<products, next_id, sales, invoices, stock_check, cur_items, clock, last,
          calls, lock, auth_user, page, shown, users, next_uid, ledger, snap>>

\* The calls in progress, and the session of the browser
running == <<calls, lock>>

session == <<auth_user, page, shown>>

\* ------------------------------------------------------------- the store
\* The three business tables as one value: what a connection reads and commits.
DB == [products |-> products, sales |-> sales, invoices |-> invoices]

Max(a, b) == IF a >= b THEN a ELSE b

RECURSIVE SumQty(_)
\* SUM(qty) over a sequence of rows
SumQty(rows) ==
    IF rows = <<>> THEN 0 ELSE Head(rows).qty + SumQty(Tail(rows))

\* CHECK(stock>=0) of table products
CheckStock(s) == s >= 0

\* Whether an UPDATE/INSERT of products may store stock s: the CHECK holds, or
\* the table was created by the first schema of the file, which has none
StockAllowed(s) == (~stock_check) \/ CheckStock(s)

SetStock(w, pid, s) == [w EXCEPT !.products[pid].stock = s]

\* the except branch without its conn.rollback(): leaving the with block commits
Rollback_missing(committed, working) == working

\* conn.rollback(): the connection goes back to the committed store
Rollback(committed, working) == committed

Commit(w) ==
    /\ products' = w.products
    /\ sales' = w.sales
    /\ invoices' = w.invoices

\* The outcome of running a handler: whether it returned success, whether an
\* exception escaped it, the step at which the store failed ("none" when it did
\* not), the message it returned, and the store it leaves committed.
Out(ok, raised, at, msg, w) ==
    [ok |-> ok, raised |-> raised, at |-> at, msg |-> msg, db |-> w]

\* What a call leaves for its caller
NoView == [cut_date |-> NoneVal, stock_at_cut |-> <<>>]

\* What register_sale returns besides (ok, msg): the total, and the number its
\* message carries (NoneVal when it carries none)
Ret(total, avail) == [total |-> total, avail |-> avail]

NoRet == Ret(0, NoneVal)

\* What verify_user returns besides its flag: the dict of the user ({} is NoUser).
\* The field arg of a call on the users table is the username it was passed.
NoUser == [username |-> <<>>, is_admin |-> FALSE]

\* st.session_state has no "page" key
NoPage == "none"

Result(op, r) ==
    [op |-> op, ok |-> r.ok, raised |-> r.raised, at |-> r.at, msg |-> r.msg,
     view |-> NoView, ret |-> NoRet, user |-> NoUser, arg |-> <<>>]

NoCall ==
    [op |-> "none", ok |-> FALSE, raised |-> FALSE, at |-> "none", msg |-> "",
     view |-> NoView, ret |-> NoRet, user |-> NoUser, arg |-> <<>>]

\* ------------------------------------------------------------ register_sale
InsufficientStock_lenient(stock, qty) == stock + 1 < qty

\* row["stock"] < qty
InsufficientStock(stock, qty) == stock < qty

\* UPDATE products SET stock=stock-?
StockAfterSale(stock, qty) == stock - qty

\* round(x, n) of Python on the quotient num/den: the nearest multiple, a tie
\* going to the even neighbour
RoundDiv(num, den) ==
    LET q == num \div den
        r == num % den
    IN  IF 2 * r > den \/ (2 * r = den /\ q % 2 = 1) THEN q + 1 ELSE q

\* the total cut to 2 decimals instead of rounded
SaleTotal_truncated(price, qty) ==
    ((price * qty) \div (Scale \div 100)) * (Scale \div 100)

\* round(float(row["price"]) * int(qty), 2), in units of 1/Scale
SaleTotal(price, qty) == RoundDiv(price * qty, Scale \div 100) * (Scale \div 100)

\* f"Stock insuficiente. Disponible: {qty}": the quantity asked for
Available_requested(stock, qty) == qty

\* f"Stock insuficiente. Disponible: {row['stock']}"
Available(stock, qty) == stock

SaleFaults == {"none", "update", "insert", "commit"}

\* register_sale(product_id, qty) on store w, the store failing at step fault
register_sale_run(w, product_id, qty, fault) ==
    IF qty <= 0 THEN Out(FALSE, FALSE, "none", "cantidad", w) @@ NoRet
    ELSE IF product_id \notin DOMAIN w.products
    THEN Out(FALSE, FALSE, "none", "no encontrado", w) @@ NoRet
    ELSE LET row == w.products[product_id] IN
    IF InsufficientStock(row.stock, qty)
    THEN Out(FALSE, FALSE, "none", "stock insuficiente", w)
            @@ Ret(0, Available(row.stock, qty))
    ELSE LET total == SaleTotal(row.price, qty)
             ns == StockAfterSale(row.stock, qty)
             w1 == SetStock(w, product_id, ns)
             w2 == [w1 EXCEPT !.sales = Append(@,
                        [product_id |-> product_id, qty |-> qty,
                         total |-> total, sold_at |-> clock])]
         IN  IF fault = "update"
             THEN Out(FALSE, FALSE, "update", "error", Rollback(w, w)) @@ NoRet
             ELSE IF ~StockAllowed(ns)
             THEN Out(FALSE, FALSE, "check", "error", Rollback(w, w)) @@ NoRet
             ELSE IF fault = "insert"
             THEN Out(FALSE, FALSE, "insert", "error", Rollback(w, w1)) @@ NoRet
             ELSE IF fault = "commit"
             THEN Out(FALSE, FALSE, "commit", "error", Rollback(w, w2)) @@ NoRet
             ELSE Out(TRUE, FALSE, "none", "venta registrada", w2) @@ Ret(total, NoneVal)

\* The history of product pid after inq units were added to its stock and outq
\* units sold: net counts from the stock it was created with, based from the
\* stock it was last set to.
Moved(l, pid, inq, outq) ==
    [l EXCEPT ![pid] = [@ EXCEPT !.net = @ + inq - outq, !.based = @ + inq - outq]]

\* The history of product pid after its stock went from old to new with no
\* Invoice row or no Sale row telling so: incr is the time of the last stock
\* increase that has no Invoice row, cut of the last decrease with no Sale row.
Unrecorded(l, pid, old, new) ==
    IF new > old THEN [l EXCEPT ![pid].incr = clock]
    ELSE IF new < old THEN [l EXCEPT ![pid].cut = clock]
    ELSE l

register_sale(product_id, qty, fault) ==
    /\ Len(sales) < MaxSales \/ ~register_sale_run(DB, product_id, qty, "none").ok
    /\ LET r == register_sale_run(DB, product_id, qty, fault) IN
       /\ Commit(r.db)
       /\ last' = [Result("register_sale", r) EXCEPT !.ret = Ret(r.total, r.avail)]
       /\ ledger' = IF r.ok THEN Moved(ledger, product_id, 0, qty) ELSE ledger
    /\ UNCHANGED <<running, session, users, next_uid, next_id, stock_check, cur_items, clock, snap>>

\* ------------------------------------------------------- catalog manager
\* SELECT ... FROM products WHERE code=?  (fetchone): the id, or NoneVal
get_product_by_code(w, code) ==
    IF \E i \in DOMAIN w.products : w.products[i].code = code
    THEN CHOOSE i \in DOMAIN w.products : w.products[i].code = code
    ELSE NoneVal

\* update_product_by_code(code, name, price, stock, cost, iva, company)
update_product_by_code_run(w, code, price, stock, cost, fault) ==
    IF code = "" THEN Out(FALSE, FALSE, "none", "codigo", w)
    ELSE LET id == get_product_by_code(w, code) IN
    IF id = NoneVal THEN Out(FALSE, FALSE, "none", "no existe", w)
    ELSE IF fault = "write" THEN Out(FALSE, TRUE, "write", "", w)
    ELSE IF ~StockAllowed(stock) THEN Out(FALSE, FALSE, "check", "error", w)
    ELSE Out(TRUE, FALSE, "none", "actualizado",
             [w EXCEPT !.products[id] =
                 [code |-> code, stock |-> stock, cost |-> cost, price |-> price]])

\* add_product(code, name, price, stock, cost, iva, company); nid is the id
\* the store gives to an inserted row
add_product_run(w, nid, code, price, stock, cost, fault) ==
    IF code = "" \/ price < 0 \/ stock < 0 \/ cost < 0
    THEN Out(FALSE, FALSE, "none", "invalido", w)
    ELSE IF get_product_by_code(w, code) # NoneVal
    THEN update_product_by_code_run(w, code, price, stock, cost, fault)
    ELSE IF fault = "write" THEN Out(FALSE, TRUE, "write", "", w)
    ELSE Out(TRUE, FALSE, "none", "agregado",
             [w EXCEPT !.products = @ @@ (nid :>
                 [code |-> code, stock |-> stock, cost |-> cost, price |-> price])])

WriteFaults == {"none", "write"}

\* The ledger after a call that set the stock of product id to s
Based(l, id, s, created) ==
    [l EXCEPT ![id] = [@ EXCEPT !.net = IF created THEN s ELSE @, !.based = s]]

\* The stock of product id in store w, 0 when there is no such product
StockOf(w, id) == IF id \in DOMAIN w.products THEN w.products[id].stock ELSE 0

add_product(code, price, stock, cost, fault) ==
    /\ next_id \in Pids
    /\ LET r == add_product_run(DB, next_id, code, price, stock, cost, fault)
           id == get_product_by_code(DB, code)
       IN
       /\ Commit(r.db)
       /\ next_id' = IF r.ok /\ id = NoneVal THEN next_id + 1 ELSE next_id
       /\ last' = Result("add_product", r)
       /\ ledger' = IF ~r.ok THEN ledger
                    ELSE IF id = NoneVal
                    THEN Unrecorded(Based(ledger, next_id, stock, TRUE), next_id, 0, stock)
                    ELSE Unrecorded(Based(ledger, id, stock, FALSE), id,
                                    StockOf(DB, id), stock)
    /\ UNCHANGED <<running, session, users, next_uid, stock_check, cur_items, clock, snap>>

update_product_by_code(code, price, stock, cost, fault) ==
    /\ LET r == update_product_by_code_run(DB, code, price, stock, cost, fault) IN
       /\ Commit(r.db)
       /\ last' = Result("update_product_by_code", r)
       /\ ledger' = IF r.ok
                    THEN LET id == get_product_by_code(DB, code) IN
                         Unrecorded(Based(ledger, id, stock, FALSE), id,
                                    StockOf(DB, id), stock)
                    ELSE ledger
    /\ UNCHANGED <<running, session, users, next_uid, next_id, stock_check, cur_items, clock, snap>>

\* DELETE FROM products WHERE id=?
delete_product_run(w, product_id, fault) ==
    IF fault = "write" THEN Out(FALSE, FALSE, "write", "error", w)
    ELSE Out(TRUE, FALSE, "none", "eliminado",
             [w EXCEPT !.products = [i \in DOMAIN @ \ {product_id} |-> @[i]]])

delete_product(product_id, fault) ==
    /\ LET r == delete_product_run(DB, product_id, fault) IN
       /\ Commit(r.db)
       /\ last' = Result("delete_product", r)
    /\ UNCHANGED <<running, session, users, next_uid, next_id, stock_check, cur_items, clock, ledger, snap>>

\* The first add_product of the file: INSERT OR REPLACE INTO products on SQLite,
\* INSERT ... ON CONFLICT (code) DO UPDATE on PostgreSQL, any error caught.
\* REPLACE deletes the row that holds the code and inserts a new row, which
\* gets the next id; nid is the id the store gives to an inserted row.
add_product_v1_run(w, nid, code, price, stock, cost, postgres, fault) ==
    LET id == get_product_by_code(w, code)
        row == [code |-> code, stock |-> stock, cost |-> cost, price |-> price]
    IN  IF fault = "write" THEN Out(FALSE, FALSE, "write", "error", w)
        ELSE IF ~StockAllowed(stock) THEN Out(FALSE, FALSE, "check", "error", w)
        ELSE IF id # NoneVal /\ postgres
        THEN Out(TRUE, FALSE, "none", "guardado", [w EXCEPT !.products[id] = row])
        ELSE Out(TRUE, FALSE, "none", "guardado",
                 [w EXCEPT !.products =
                     [i \in (DOMAIN @ \ {id}) \cup {nid} |->
                         IF i = nid THEN row ELSE @[i]]])

add_product_v1(code, price, stock, cost, postgres, fault) ==
    /\ next_id \in Pids
    /\ LET r == add_product_v1_run(DB, next_id, code, price, stock, cost, postgres,
                                   fault)
           id == get_product_by_code(DB, code)
           kept == r.ok /\ id # NoneVal /\ postgres
       IN
       /\ Commit(r.db)
       /\ next_id' = IF r.ok /\ ~kept THEN next_id + 1 ELSE next_id
       /\ last' = Result("add_product", r)
       /\ ledger' = IF ~r.ok THEN ledger
                    ELSE IF kept
                    THEN Unrecorded(Based(ledger, id, stock, FALSE), id,
                                    StockOf(DB, id), stock)
                    ELSE Unrecorded(Based(ledger, next_id, stock, TRUE), next_id, 0, stock)
    /\ UNCHANGED <<running, session, users, next_uid, stock_check, cur_items, clock, snap>>

\* ------------------------------------------------------ restock / invoice
\* the quotient truncated instead of rounded
UnitCost_truncated(invoice_total, qty) == (invoice_total * Scale) \div qty

\* round(float(invoice_total) / int(qty), 4), in units of 1/Scale
UnitCost(invoice_total, qty) == RoundDiv(invoice_total * Scale, qty)

\* the stock set to the quantity received instead of raised by it
StockAfterRestock_overwrite(stock, qty) == qty

\* new_stock = int(row["stock"]) + int(qty)
StockAfterRestock(stock, qty) == stock + qty

\* created_by of a row written while nobody is logged in: None.  No user name is
\* empty (create_user refuses one, FIXED_USER is not), so the empty name is free
NoCreator == <<>>

\* the user of the session never recorded
Creator_none(user) == NoCreator

\* creator = (st.session_state.get("auth_user") or {}).get("username")
Creator(user) == IF user = NoUser THEN NoCreator ELSE user.username

\* the row written over the rows of the table
insert_invoice_replacing(w, product_id, qty, invoice_total, unit_cost, new_price, created_by, batch_id) ==
    [w EXCEPT !.invoices =
        <<[product_id |-> product_id, qty |-> qty, invoice_total |-> invoice_total,
           unit_cost |-> unit_cost, new_price |-> new_price, created_by |-> created_by,
           batch_id |-> batch_id, created_at |-> clock]>>]

\* INSERT INTO invoices(...) VALUES (...); created_at = CURRENT_TIMESTAMP
insert_invoice(w, product_id, qty, invoice_total, unit_cost, new_price, created_by, batch_id) ==
    [w EXCEPT !.invoices = Append(@,
        [product_id |-> product_id, qty |-> qty, invoice_total |-> invoice_total,
         unit_cost |-> unit_cost, new_price |-> new_price, created_by |-> created_by,
         batch_id |-> batch_id, created_at |-> clock])]

\* cost=? written on every restock, with 0 when there is no invoice total
RestockedRow_cost_reset(row, qty, invoice_total, new_price) ==
    [row EXCEPT !.stock = StockAfterRestock(row.stock, qty),
                !.cost = IF invoice_total # NoneVal /\ qty > 0
                         THEN UnitCost(invoice_total, qty) ELSE 0,
                !.price = IF new_price # NoneVal THEN new_price ELSE @]

\* the price only ever raised
RestockedRow_price_raised(row, qty, invoice_total, new_price) ==
    [row EXCEPT !.stock = StockAfterRestock(row.stock, qty),
                !.cost = IF invoice_total # NoneVal /\ qty > 0
                         THEN UnitCost(invoice_total, qty) ELSE @,
                !.price = IF new_price # NoneVal /\ new_price > @ THEN new_price ELSE @]

\* The product row after the single UPDATE of restock_with_invoice
RestockedRow(row, qty, invoice_total, new_price) ==
    [row EXCEPT !.stock = StockAfterRestock(row.stock, qty),
                !.cost = IF invoice_total # NoneVal /\ qty > 0
                         THEN UnitCost(invoice_total, qty) ELSE @,
                !.price = IF new_price # NoneVal THEN new_price ELSE @]

RestockFaults == {"none", "update", "insert"}

\* only a negative quantity refused
InvalidQty_negative(qty) == qty < 0

\* if qty <= 0: return False, "La cantidad debe ser mayor a 0."
InvalidQty(qty) == qty <= 0

\* restock_with_invoice(product_id, qty, invoice_total, new_price) on store w
restock_with_invoice_run(w, product_id, qty, invoice_total, new_price, fault) ==
    IF InvalidQty(qty) THEN Out(FALSE, FALSE, "none", "cantidad", w)
    ELSE IF invoice_total # NoneVal /\ invoice_total < 0
    THEN Out(FALSE, FALSE, "none", "factura negativa", w)
    ELSE IF new_price # NoneVal /\ new_price < 0
    THEN Out(FALSE, FALSE, "none", "precio negativo", w)
    ELSE IF product_id \notin DOMAIN w.products
    THEN Out(FALSE, FALSE, "none", "no encontrado", w)
    ELSE LET row == RestockedRow(w.products[product_id], qty, invoice_total, new_price)
             w1 == [w EXCEPT !.products[product_id] = row]
         IN  IF fault = "update" THEN Out(FALSE, TRUE, "update", "", w)
             ELSE IF ~StockAllowed(row.stock) THEN Out(FALSE, TRUE, "check", "", w)
             ELSE IF invoice_total = NoneVal \/ qty <= 0
             THEN Out(TRUE, FALSE, "none", "stock", w1)
             ELSE IF fault = "insert" THEN Out(FALSE, TRUE, "insert", "", w1)
             ELSE Out(TRUE, FALSE, "none", "stock y factura",
                      insert_invoice(w1, product_id, qty, invoice_total,
                                     UnitCost(invoice_total, qty), new_price,
                                     Creator(auth_user), NoneVal))

restock_with_invoice(product_id, qty, invoice_total, new_price, fault) ==
    /\ Len(restock_with_invoice_run(DB, product_id, qty, invoice_total, new_price,
                                    fault).db.invoices) <= MaxInvoices
    /\ product_id \in DOMAIN products =>
          Max(products[product_id].stock, ledger[product_id].net) + qty <= MaxStock
    /\ LET r == restock_with_invoice_run(DB, product_id, qty, invoice_total, new_price,
                                         fault) IN
       /\ Commit(r.db)
       /\ last' = Result("restock_with_invoice", r)
       /\ ledger' = IF r.msg = "stock y factura" THEN Moved(ledger, product_id, qty, 0)
                    ELSE IF r.msg = "stock" \/ r.at = "insert"
                    THEN Unrecorded(Moved(ledger, product_id, qty, 0), product_id, 0, qty)
                    ELSE ledger
    /\ UNCHANGED <<running, session, users, next_uid, next_id, stock_check, cur_items, clock, snap>>

\* ------------------------------------------------- purchase invoice (batch)
\* float(qty) * float(unit_cost) * (1.0 + float(iva)/100.0), in units of 1/Scale
InvoiceTotal(qty, unit_cost, iva) == RoundDiv(qty * unit_cost * (100 + iva), 100)

\* dt.datetime.now().strftime("%Y%m%d%H%M%S"): the second the clock shows
BatchId(now) == now

\* "Agregar item": the line is appended when code, name and units are given
AddItem(code, qty, unit_cost, iva, sale_price) ==
    /\ Len(cur_items) < MaxItems
    /\ cur_items' = IF code = "" \/ qty <= 0 THEN cur_items
                    ELSE Append(cur_items,
                                [code |-> code, qty |-> qty, unit_cost |-> unit_cost,
                                 iva |-> iva, sale_price |-> sale_price])
    /\ last' = [NoCall EXCEPT !.op = "add_item", !.ok = ~(code = "" \/ qty <= 0)]
    /\ UNCHANGED <<running, session, users, next_uid, products,
                   next_id, sales, invoices, stock_check, clock, ledger, snap>>

\* "Cancelar factura"
CancelInvoice ==
    /\ cur_items # <<>>
    /\ cur_items' = <<>>
    /\ last' = [NoCall EXCEPT !.op = "cancel_invoice", !.ok = TRUE]
    /\ UNCHANGED <<running, session, users, next_uid, products,
                   next_id, sales, invoices, stock_check, clock, ledger, snap>>

SaveSteps == {"upsert", "stock", "insert"}

\* The steps at which the store may fail while nitems lines are saved: none, or
\* step s of line k
SaveFaults(nitems) == {<<0, "none">>} \cup ((1 .. nitems) \X SaveSteps)

RECURSIVE save_items(_, _, _, _, _)
\* for it in items: ... of "Guardar factura", each statement committing on its
\* own; fault = <<k, step>>, the store failing at that step of the k-th line
\* left.  The result carries nid, the next id of the products table.
save_items(w, nid, items, batch_id, fault) ==
    IF items = <<>>
    THEN Out(TRUE, FALSE, "none", "factura guardada", w) @@ [nid |-> nid]
    ELSE LET it == Head(items)
             here == fault[1] = 1
             existing == get_product_by_code(w, it.code)
             up == IF existing # NoneVal
                   THEN update_product_by_code_run(w, it.code, it.sale_price,
                            w.products[existing].stock, it.unit_cost, "none")
                   ELSE add_product_run(w, nid, it.code, it.sale_price, 0,
                                        it.unit_cost, "none")
             w1 == up.db
             nid1 == IF existing = NoneVal /\ up.ok THEN nid + 1 ELSE nid
             product_id == get_product_by_code(w1, it.code)
         IN  IF here /\ fault[2] = "upsert"
             THEN Out(FALSE, TRUE, "upsert", "", w) @@ [nid |-> nid]
             ELSE IF product_id = NoneVal
             THEN Out(FALSE, TRUE, "upsert", "", w1) @@ [nid |-> nid1]
             ELSE IF here /\ fault[2] = "stock"
             THEN Out(FALSE, TRUE, "stock", "", w1) @@ [nid |-> nid1]
             ELSE LET w2 == SetStock(w1, product_id,
                                     StockAfterRestock(w1.products[product_id].stock,
                                                       it.qty))
                      w3 == insert_invoice(w2, product_id, it.qty,
                                InvoiceTotal(it.qty, it.unit_cost, it.iva),
                                it.unit_cost, it.sale_price, Creator(auth_user),
                                batch_id)
                  IN  IF here /\ fault[2] = "insert"
                      THEN Out(FALSE, TRUE, "insert", "", w2) @@ [nid |-> nid1]
                      ELSE save_items(w3, nid1, Tail(items), batch_id,
                                      <<fault[1] - 1, fault[2]>>)

RECURSIVE SavedLines(_, _, _, _)
\* The history after the stock of the first n lines of items was raised; w is
\* the store the save left, where every such line has its product
SavedLines(l, w, items, n) ==
    IF n = 0 THEN l
    ELSE LET it == Head(items)
             id == get_product_by_code(w, it.code)
         IN  SavedLines(Moved(l, id, it.qty, 0), w, Tail(items), n - 1)

\* "Guardar factura y generar PDF"
save_invoice(company, fault) ==
    /\ cur_items # <<>>
    /\ fault \in SaveFaults(Len(cur_items))
    /\ IF company = ""
       THEN /\ last' = [NoCall EXCEPT !.op = "save_invoice", !.msg = "empresa"]
            /\ UNCHANGED <<products, next_id, sales, invoices, cur_items, ledger>>
       ELSE LET r == save_items(DB, next_id, cur_items, BatchId(clock), fault)
                raised == Len(r.db.invoices) - Len(invoices)
                             + (IF r.at = "insert" THEN 1 ELSE 0)
                l1 == SavedLines(ledger, r.db, cur_items, raised)
            IN  /\ r.nid - 1 \in Pids \cup {0}
                /\ \A p \in DOMAIN r.db.products :
                      Max(r.db.products[p].stock, l1[p].net) <= MaxStock
                /\ Commit(r.db)
                /\ next_id' = r.nid
                /\ cur_items' = IF r.ok THEN <<>> ELSE cur_items
                /\ last' = Result("save_invoice", r)
                /\ ledger' = IF r.at = "insert"
                             THEN [l1 EXCEPT
                                     ![get_product_by_code(r.db, cur_items[raised].code)].incr
                                        = clock]
                             ELSE l1
    /\ UNCHANGED <<running, session, users, next_uid, stock_check, clock, snap>>

\* The place of a company name among the names entered
CompanyNo(company) == IF company = "" THEN 1 ELSE 2

\* f"{company}_{now:%Y%m%d%H%M%S}" of ui_factura_compra: one id per company
\* and second, none of them the id of a save of page_products
BatchId_v1(company, now) == 100 * CompanyNo(company) + now

\* "Agregar producto" of ui_factura_compra: add_product(code, name, sale_price,
\* qty, unit_cost, iva, company) with its result ignored, then, when the code is
\* found, insert_invoice(product["id"], qty, qty * unit_cost, ...) under the
\* batch id of this run of the script
ui_factura_compra(code, qty, unit_cost, sale_price, company, postgres, fault) ==
    /\ next_id \in Pids
    /\ LET r == add_product_v1_run(DB, next_id, code, sale_price, qty, unit_cost,
                                   postgres, IF fault = "write" THEN fault ELSE "none")
           id == get_product_by_code(DB, code)
           kept == r.ok /\ id # NoneVal /\ postgres
           product == get_product_by_code(r.db, code)
           w == IF product = NoneVal \/ fault = "insert" THEN r.db
                ELSE insert_invoice(r.db, product, qty, qty * unit_cost, unit_cost,
                                    sale_price, Creator(auth_user),
                                    BatchId_v1(company, clock))
       IN
       /\ Commit(w)
       /\ next_id' = IF r.ok /\ ~kept THEN next_id + 1 ELSE next_id
       /\ last' = [NoCall EXCEPT !.op = "ui_factura_compra",
                                 !.ok = product # NoneVal /\ fault # "insert",
                                 !.raised = product # NoneVal /\ fault = "insert",
                                 !.at = IF fault = "none" THEN "none" ELSE fault]
       /\ ledger' = IF ~r.ok THEN ledger
                    ELSE IF kept
                    THEN Unrecorded(Based(ledger, id, qty, FALSE), id, StockOf(DB, id), qty)
                    ELSE Unrecorded(Based(ledger, next_id, qty, TRUE), next_id, 0, qty)
    /\ UNCHANGED <<running, session, users, next_uid, stock_check, cur_items, clock, snap>>

\* new_stock = int(cur["stock"] or 0) - q, the floor at 0 left out
RevertedStock_unfloored(stock, q) == stock - q

\* new_stock = max(int(cur["stock"] or 0) - q, 0)
RevertedStock(stock, q) == Max(stock - q, 0)

RECURSIVE revert_lines(_, _)
\* for ln in lines: the stock of each line's product, when it exists, reverted
revert_lines(w, lines) ==
    IF lines = <<>> THEN w
    ELSE LET pid == Head(lines).product_id
             w1 == IF pid \in DOMAIN w.products
                   THEN SetStock(w, pid, RevertedStock(w.products[pid].stock,
                                                       Head(lines).qty))
                   ELSE w
         IN  revert_lines(w1, Tail(lines))

\* SELECT product_id, qty FROM invoices WHERE batch_id=?
BatchLines(w, batch_id) == SelectSeq(w.invoices, LAMBDA row : row.batch_id = batch_id)

\* The batch ids a deletion is asked for: none, or the second of a save
BatchIds == {NoneVal} \cup (0 .. MaxClock)

\* no batch id refused
InvalidBatch_never(batch_id) == FALSE

\* if not batch_id: return False, "Batch ID inválido."
InvalidBatch(batch_id) == batch_id = NoneVal

\* delete_invoice_batch(batch_id, adjust_stock) on store w
delete_invoice_batch_run(w, batch_id, adjust_stock, fault) ==
    IF InvalidBatch(batch_id) THEN Out(FALSE, FALSE, "none", "batch invalido", w)
    ELSE LET lines == BatchLines(w, batch_id)
             w1 == IF adjust_stock THEN revert_lines(w, lines) ELSE w
             w2 == [w1 EXCEPT !.invoices =
                       SelectSeq(@, LAMBDA row : row.batch_id # batch_id)]
         IN  IF fault = "write" THEN Out(FALSE, FALSE, "write", "error", w)
             ELSE IF lines = <<>> THEN Out(FALSE, FALSE, "none", "sin lineas", w)
             ELSE IF \E p \in DOMAIN w1.products : ~StockAllowed(w1.products[p].stock)
             THEN Out(FALSE, FALSE, "check", "error", w)
             ELSE Out(TRUE, FALSE, "none",
                      IF adjust_stock THEN "lote eliminado y stock revertido"
                      ELSE "lote eliminado", w2)

\* The first delete_invoice_batch of the file: no test of batch_id, whose SELECT
\* finds no row for None (batch_id = NULL is never true) nor for the empty string
delete_invoice_batch_v1_run(w, batch_id, adjust_stock, fault) ==
    LET lines == IF batch_id = NoneVal THEN <<>> ELSE BatchLines(w, batch_id)
        w1 == IF adjust_stock THEN revert_lines(w, lines) ELSE w
        w2 == [w1 EXCEPT !.invoices =
                  SelectSeq(@, LAMBDA row : row.batch_id # batch_id)]
    IN  IF fault = "write" THEN Out(FALSE, FALSE, "write", "error", w)
        ELSE IF lines = <<>> THEN Out(FALSE, FALSE, "none", "no encontrado", w)
        ELSE Out(TRUE, FALSE, "none", "lote eliminado", w2)

\* The history of product p after the Invoice rows lines were deleted and its
\* stock went from old to new: the stock increase the rows told of has no
\* Invoice row any more
Deleted(l, p, lines, old, new) ==
    LET mine == {i \in 1 .. Len(lines) : lines[i].product_id = p}
        rec == IF mine = {} THEN l[p]
               ELSE [l[p] EXCEPT
                       !.incr = Max(@, lines[CHOOSE i \in mine : TRUE].created_at),
                       !.based = @ - (old - new),
                       !.net = @ - (old - new)]
    IN  IF new < old THEN [rec EXCEPT !.cut = clock] ELSE rec

delete_invoice_batch(batch_id, adjust_stock, fault) ==
    /\ LET r == delete_invoice_batch_run(DB, batch_id, adjust_stock, fault) IN
       /\ Commit(r.db)
       /\ last' = Result("delete_invoice_batch", r)
       /\ ledger' = IF r.ok
                    THEN [p \in Pids |->
                            Deleted(ledger, p, BatchLines(DB, batch_id),
                                    StockOf(DB, p), StockOf(r.db, p))]
                    ELSE ledger
    /\ UNCHANGED <<running, session, users, next_uid, next_id, stock_check, cur_items, clock, snap>>

delete_invoice_batch_v1(batch_id, adjust_stock, fault) ==
    /\ LET r == delete_invoice_batch_v1_run(DB, batch_id, adjust_stock, fault) IN
       /\ Commit(r.db)
       /\ last' = Result("delete_invoice_batch", r)
       /\ ledger' = IF r.ok
                    THEN [p \in Pids |->
                            Deleted(ledger, p, BatchLines(DB, batch_id),
                                    StockOf(DB, p), StockOf(r.db, p))]
                    ELSE ledger
    /\ UNCHANGED <<running, session, users, next_uid, next_id, stock_check, cur_items, clock, snap>>

\* ------------------------------------------------------ inventory at date
\* The calendar day of time t
DayOf(t) == t \div TicksPerDay

\* dt.datetime.combine(cut_date, dt.time.min): the first instant of the day
cutoff_dt_min(cut_date) == cut_date * TicksPerDay

\* dt.datetime.combine(cut_date, dt.time.max): the last instant of the day
cutoff_dt(cut_date) == cut_date * TicksPerDay + (TicksPerDay - 1)

\* WHERE sold_at >= ? / created_at >= ?
After_inclusive(t, cutoff) == t >= cutoff

\* WHERE sold_at > ? / created_at > ?
After(t, cutoff) == t > cutoff

RECURSIVE sales_after(_, _, _)
\* SELECT product_id, SUM(qty) FROM sales WHERE sold_at > ? GROUP BY product_id,
\* then .get(p["id"], 0)
sales_after(rows, pid, cutoff) ==
    IF rows = <<>> THEN 0
    ELSE (IF Head(rows).product_id = pid /\ After(Head(rows).sold_at, cutoff)
          THEN Head(rows).qty ELSE 0) + sales_after(Tail(rows), pid, cutoff)

RECURSIVE invoices_after(_, _, _)
\* SELECT product_id, SUM(qty) FROM invoices WHERE created_at > ? GROUP BY
\* product_id, then .get(p["id"], 0)
invoices_after(rows, pid, cutoff) ==
    IF rows = <<>> THEN 0
    ELSE (IF Head(rows).product_id = pid /\ After(Head(rows).created_at, cutoff)
          THEN Head(rows).qty ELSE 0) + invoices_after(Tail(rows), pid, cutoff)

\* cur_stock + sold_after - restock_after, the floor at 0 left out
stock_at_cut_unfloored(cur_stock, sold_after, restock_after) ==
    cur_stock + sold_after - restock_after

\* stock_at_cut = max(cur_stock + sold_after - restock_after, 0)
stock_at_cut(cur_stock, sold_after, restock_after) ==
    Max(cur_stock + sold_after - restock_after, 0)

\* The inventory page for cut_date: per product, its stock at the cutoff
inventory_view(w, cut_date) ==
    [cut_date |-> cut_date,
     stock_at_cut |->
        [p \in DOMAIN w.products |->
            stock_at_cut(w.products[p].stock,
                         sales_after(w.sales, p, cutoff_dt(cut_date)),
                         invoices_after(w.invoices, p, cutoff_dt(cut_date)))]]

\* The dates the date input is given: today and the days before
CutDates == 0 .. DayOf(MaxClock)

page_inventory(cut_date) ==
    /\ last' = [NoCall EXCEPT !.op = "page_inventory", !.ok = TRUE,
                              !.view = inventory_view(DB, cut_date)]
    /\ UNCHANGED <<running, session, users, next_uid, products, next_id, sales, invoices, stock_check, cur_items, clock,
                   ledger, snap>>

\* --------------------------------------------------------------- the clock
\* Time passes; when a day ends, the history keeps the stock each product had
Tick ==
    /\ clock < MaxClock
    /\ clock' = clock + 1
    /\ last' = NoCall
    /\ snap' = IF DayOf(clock + 1) > DayOf(clock)
               THEN snap @@ (DayOf(clock) :> [p \in DOMAIN products |-> products[p].stock])
               ELSE snap
    /\ UNCHANGED <<running, session, users, next_uid, products, next_id, sales, invoices, stock_check, cur_items, ledger>>

\* ------------------------------------------- calls running side by side
\* Two requests served at once, each on its own connection.  A connection reads
\* the committed store; its UPDATE or INSERT takes the write lock of the store,
\* which it holds until its commit or rollback; a statement that finds the lock
\* held waits, and fails ("database is locked") when the wait times out.
Procs == {1, 2}

\* A process that runs no call
Idle ==
    [op |-> "none", pc |-> "done", product_id |-> NoneVal, qty |-> 0,
     invoice_total |-> NoneVal, new_price |-> NoneVal, seen |-> NoneVal,
     before |-> NoneVal, ok |-> FALSE, raised |-> FALSE]

\* A call that passed the checks of its arguments and is about to run its SELECT;
\* before is the stock of the product when the call was made
Call(op, product_id, qty, invoice_total, new_price) ==
    [Idle EXCEPT !.op = op, !.pc = "select", !.product_id = product_id, !.qty = qty,
                 !.invoice_total = invoice_total, !.new_price = new_price,
                 !.before = StockOf(DB, product_id)]

\* No call was made yet
Quiet == \A i \in Procs : calls[i] = Idle

Returned(c, ok, raised) == [c EXCEPT !.pc = "done", !.ok = ok, !.raised = raised]

\* Two calls are made at the same time, on a store that holds no Sale and no
\* Invoice row yet
StartCalls(c1, c2) ==
    /\ Quiet
    /\ sales = <<>> /\ invoices = <<>>
    /\ calls' = (1 :> c1) @@ (2 :> c2)
    /\ UNCHANGED <<products, next_id, sales, invoices, stock_check, cur_items, clock,
                   last, lock, session, users, next_uid, ledger, snap>>

\* register_sale: SELECT price, stock, name, cost FROM products WHERE id=?, and the
\* two tests of the row
register_sale_select(i) ==
    LET c == calls[i] IN
    /\ c.op = "register_sale" /\ c.pc = "select"
    /\ calls' = [calls EXCEPT ![i] =
          IF c.product_id \notin DOMAIN products THEN Returned(c, FALSE, FALSE)
          ELSE IF InsufficientStock(products[c.product_id].stock, c.qty)
          THEN Returned(c, FALSE, FALSE)
          ELSE [c EXCEPT !.pc = "update", !.seen = products[c.product_id]]]
    /\ UNCHANGED <<products, next_id, sales, invoices, stock_check, cur_items, clock,
                   last, lock, session, users, next_uid, ledger, snap>>

\* register_sale: BEGIN, UPDATE products SET stock=stock-?, INSERT INTO sales.  The
\* UPDATE works on the committed row; a CHECK that fails sends the call to its
\* except branch (rollback, return False).
register_sale_update(i) ==
    LET c == calls[i] IN
    /\ c.op = "register_sale" /\ c.pc = "update"
    /\ lock = 0
    /\ IF /\ c.product_id \in DOMAIN products
          /\ ~StockAllowed(StockAfterSale(products[c.product_id].stock, c.qty))
       THEN /\ calls' = [calls EXCEPT ![i] = Returned(c, FALSE, FALSE)]
            /\ lock' = 0
       ELSE /\ calls' = [calls EXCEPT ![i].pc = "commit"]
            /\ lock' = i
    /\ UNCHANGED <<products, next_id, sales, invoices, stock_check, cur_items, clock,
                   last, session, users, next_uid, ledger, snap>>

\* register_sale: conn.commit(), return True
register_sale_commit(i) ==
    LET c == calls[i]
        p == c.product_id
    IN
    /\ c.op = "register_sale" /\ c.pc = "commit"
    /\ lock = i
    /\ products' = IF p \in DOMAIN products
                   THEN [products EXCEPT ![p].stock = StockAfterSale(@, c.qty)]
                   ELSE products
    /\ sales' = Append(sales, [product_id |-> p, qty |-> c.qty,
                               total |-> SaleTotal(c.seen.price, c.qty),
                               sold_at |-> clock])
    /\ ledger' = Moved(ledger, p, 0, c.qty)
    /\ lock' = 0
    /\ calls' = [calls EXCEPT ![i] = Returned(c, TRUE, FALSE)]
    /\ UNCHANGED <<next_id, invoices, stock_check, cur_items, clock, last, session,
                   users, next_uid, snap>>

\* register_sale: the wait for the write lock timed out; the except branch rolls
\* back and returns False
register_sale_busy(i) ==
    LET c == calls[i] IN
    /\ c.op = "register_sale" /\ c.pc = "update"
    /\ lock \notin {0, i}
    /\ calls' = [calls EXCEPT ![i] = Returned(c, FALSE, FALSE)]
    /\ UNCHANGED <<products, next_id, sales, invoices, stock_check, cur_items, clock,
                   last, lock, session, users, next_uid, ledger, snap>>

\* restock_with_invoice: SELECT name, stock FROM products WHERE id=?
restock_select(i) ==
    LET c == calls[i] IN
    /\ c.op = "restock_with_invoice" /\ c.pc = "select"
    /\ calls' = [calls EXCEPT ![i] =
          IF c.product_id \notin DOMAIN products THEN Returned(c, FALSE, FALSE)
          ELSE [c EXCEPT !.pc = "update", !.seen = products[c.product_id]]]
    /\ UNCHANGED <<products, next_id, sales, invoices, stock_check, cur_items, clock,
                   last, lock, session, users, next_uid, ledger, snap>>

\* The row that the UPDATE of the call writes: stock=? is the stock the SELECT saw
\* plus qty, the columns not named keep what the committed row holds
RestockWrite(c) ==
    RestockedRow([products[c.product_id] EXCEPT !.stock = c.seen.stock],
                 c.qty, c.invoice_total, c.new_price)

\* restock_with_invoice: UPDATE products SET stock=?, ...; no exception is caught
restock_update(i) ==
    LET c == calls[i] IN
    /\ c.op = "restock_with_invoice" /\ c.pc = "update"
    /\ lock = 0
    /\ IF c.product_id \in DOMAIN products /\ ~StockAllowed(RestockWrite(c).stock)
       THEN /\ calls' = [calls EXCEPT ![i] = Returned(c, FALSE, TRUE)]
            /\ lock' = 0
       ELSE /\ calls' = [calls EXCEPT ![i].pc = "commit"]
            /\ lock' = i
    /\ UNCHANGED <<products, next_id, sales, invoices, stock_check, cur_items, clock,
                   last, session, users, next_uid, ledger, snap>>

\* restock_with_invoice: conn.commit() of the UPDATE
restock_commit(i) ==
    LET c == calls[i]
        p == c.product_id
    IN
    /\ c.op = "restock_with_invoice" /\ c.pc = "commit"
    /\ lock = i
    /\ products' = IF p \in DOMAIN products
                   THEN [products EXCEPT ![p] = RestockWrite(c)]
                   ELSE products
    /\ ledger' = IF c.invoice_total = NoneVal
                 THEN Unrecorded(Moved(ledger, p, c.qty, 0), p, 0, c.qty)
                 ELSE Moved(ledger, p, c.qty, 0)
    /\ lock' = 0
    /\ calls' = [calls EXCEPT ![i] =
          IF c.invoice_total = NoneVal THEN Returned(c, TRUE, FALSE)
          ELSE [c EXCEPT !.pc = "insert"]]
    /\ UNCHANGED <<next_id, sales, invoices, stock_check, cur_items, clock, last,
                   session, users, next_uid, snap>>

\* restock_with_invoice: insert_invoice(...) on its own connection, return True
restock_insert(i) ==
    LET c == calls[i] IN
    /\ c.op = "restock_with_invoice" /\ c.pc = "insert"
    /\ lock = 0
    /\ invoices' = insert_invoice(DB, c.product_id, c.qty, c.invoice_total,
                                  UnitCost(c.invoice_total, c.qty), c.new_price,
                                  Creator(auth_user), NoneVal).invoices
    /\ calls' = [calls EXCEPT ![i] = Returned(c, TRUE, FALSE)]
    /\ UNCHANGED <<products, next_id, sales, stock_check, cur_items, clock, last, lock,
                   session, users, next_uid, ledger, snap>>

\* restock_with_invoice: the wait for the write lock timed out; the exception
\* leaves the call
restock_busy(i) ==
    LET c == calls[i] IN
    /\ c.op = "restock_with_invoice" /\ c.pc \in {"update", "insert"}
    /\ lock \notin {0, i}
    /\ calls' = [calls EXCEPT ![i] = Returned(c, FALSE, TRUE)]
    /\ ledger' = IF c.pc = "insert"
                 THEN [ledger EXCEPT ![c.product_id].incr = clock] ELSE ledger
    /\ UNCHANGED <<products, next_id, sales, invoices, stock_check, cur_items, clock,
                   last, lock, session, users, next_uid, snap>>

\* ------------------------------------------------------------------ users
\* Text is a sequence of characters.
FIXED_USER == <<"c", "o", "n", "d", "e", "o", "m", "a", "r">>

FIXED_PASS == <<"1", "2", "2", "1", "3", "0", "@">>

\* The upper-case letters that occur in the names tried, with their lower case
LowerCase == ("A" :> "a") @@ ("C" :> "c")

\* str.lower()
lower(text) ==
    [i \in 1 .. Len(text) |->
        IF text[i] \in DOMAIN LowerCase THEN LowerCase[text[i]] ELSE text[i]]

RECURSIVE lstrip(_)
lstrip(text) ==
    IF text # <<>> /\ Head(text) = " " THEN lstrip(Tail(text)) ELSE text

RECURSIVE rstrip(_)
rstrip(text) ==
    IF text # <<>> /\ text[Len(text)] = " "
    THEN rstrip(SubSeq(text, 1, Len(text) - 1)) ELSE text

\* str.strip()
strip(text) == rstrip(lstrip(text))

\* the username trimmed but kept in the case it was typed in
Normalize_trim_only(username) == strip(username)

\* (username or "").strip().lower()
Normalize(username) == lower(strip(username))

\* hashlib.pbkdf2_hmac("sha256", password, salt, iterations): the digest, held as
\* the pair it was derived from (two digests are equal when password and salt are)
hash_password(password, salt) == [password |-> password, salt |-> salt]

\* secrets.compare_digest(hash_password(password, salt_hex), stored_hash_hex)
verify_password(password, stored_hash, salt) == hash_password(password, salt) = stored_hash

\* SELECT * FROM users WHERE username=?  (fetchone): the id, or NoneVal
user_by_name(us, u) ==
    IF \E i \in DOMAIN us : us[i].username = u
    THEN CHOOSE i \in DOMAIN us : us[i].username = u
    ELSE NoneVal

\* the username column without its UNIQUE constraint
UsernameTaken_never(us, u) == FALSE

\* username TEXT NOT NULL UNIQUE: the INSERT raises sqlite3.IntegrityError
UsernameTaken(us, u) == user_by_name(us, u) # NoneVal

\* The outcome of a call on the users table: us is the table it leaves, user
\* the dict verify_user returns
UOut(ok, raised, at, msg, us, user) ==
    [ok |-> ok, raised |-> raised, at |-> at, msg |-> msg, users |-> us, user |-> user]

\* The users table after the INSERT of create_user
InsertUser(us, uid, username, password, salt, is_admin) ==
    [i \in DOMAIN us \cup {uid} |->
        IF i = uid
        THEN [username |-> username, password_hash |-> hash_password(password, salt),
              password_salt |-> salt, is_admin |-> is_admin]
        ELSE us[i]]

\* create_user(username, password, is_admin); salt is secrets.token_bytes(16), uid
\* the id the store gives to the row.  Only sqlite3.IntegrityError is caught.
create_user_run(us, uid, username, password, is_admin, salt, fault) ==
    LET u == Normalize(username) IN
    IF u = <<>> THEN UOut(FALSE, FALSE, "none", "usuario vacio", us, NoUser)
    ELSE IF Len(password) < 4 THEN UOut(FALSE, FALSE, "none", "clave corta", us, NoUser)
    ELSE IF fault = "write" THEN UOut(FALSE, TRUE, "write", "", us, NoUser)
    ELSE IF UsernameTaken(us, u) THEN UOut(FALSE, FALSE, "unique", "ya existe", us, NoUser)
    ELSE UOut(TRUE, FALSE, "none", "creado",
              InsertUser(us, uid, u, password, salt, is_admin), NoUser)

\* The first create_user of the file: any non-empty password, any error caught
create_user_v1_run(us, uid, username, password, is_admin, salt, fault) ==
    LET u == Normalize(username) IN
    IF u = <<>> \/ password = <<>>
    THEN UOut(FALSE, FALSE, "none", "requeridos", us, NoUser)
    ELSE IF fault = "write" THEN UOut(FALSE, FALSE, "write", "error", us, NoUser)
    ELSE IF UsernameTaken(us, u) THEN UOut(FALSE, FALSE, "unique", "error", us, NoUser)
    ELSE UOut(TRUE, FALSE, "none", "creado",
              InsertUser(us, uid, u, password, salt, is_admin), NoUser)

UserFaults == {"none", "write"}

UserResult(op, r, username) == [Result(op, r) EXCEPT !.user = r.user, !.arg = username]

create_user(username, password, is_admin, salt, fault) ==
    /\ next_uid <= MaxUsers
    /\ LET r == create_user_run(users, next_uid, username, password, is_admin, salt,
                                fault) IN
       /\ users' = r.users
       /\ next_uid' = IF r.ok THEN next_uid + 1 ELSE next_uid
       /\ last' = UserResult("create_user", r, username)
    /\ UNCHANGED <<running, session, products, next_id, sales, invoices, stock_check, cur_items, clock,
                   ledger, snap>>

create_user_v1(username, password, is_admin, salt, fault) ==
    /\ next_uid <= MaxUsers
    /\ LET r == create_user_v1_run(users, next_uid, username, password, is_admin, salt,
                                   fault) IN
       /\ users' = r.users
       /\ next_uid' = IF r.ok THEN next_uid + 1 ELSE next_uid
       /\ last' = UserResult("create_user", r, username)
    /\ UNCHANGED <<running, session, products, next_id, sales, invoices, stock_check, cur_items, clock,
                   ledger, snap>>

\* delete_user(user_id): DELETE FROM users WHERE id=?, any error caught
delete_user_run(us, user_id, fault) ==
    IF fault = "write" THEN UOut(FALSE, FALSE, "write", "error", us, NoUser)
    ELSE UOut(TRUE, FALSE, "none", "eliminado",
              [i \in DOMAIN us \ {user_id} |-> us[i]], NoUser)

delete_user(user_id, fault) ==
    /\ LET r == delete_user_run(users, user_id, fault) IN
       /\ users' = r.users
       /\ last' = UserResult("delete_user", r, <<>>)
    /\ UNCHANGED <<running, session, products, next_id, sales, invoices, stock_check, cur_items, clock,
                   next_uid, ledger, snap>>

\* wipe_business_data(keep_users): the three business tables emptied, and the
\* users table too unless keep_users; no error is caught
wipe_business_data(keep_users, fault) ==
    /\ IF fault = "write"
       THEN /\ UNCHANGED <<products, sales, invoices, users>>
            /\ last' = [NoCall EXCEPT !.op = "wipe_business_data", !.raised = TRUE,
                                      !.at = "write"]
       ELSE /\ products' = <<>>
            /\ sales' = <<>>
            /\ invoices' = <<>>
            /\ users' = IF keep_users THEN users ELSE <<>>
            /\ last' = [NoCall EXCEPT !.op = "wipe_business_data", !.ok = TRUE]
    /\ UNCHANGED <<running, session, next_id, stock_check, cur_items, clock, next_uid, ledger, snap>>

\* the fixed credentials looked up in the users table like any other
FixedLogin_stored(us, u, password) ==
    /\ u = FIXED_USER /\ password = FIXED_PASS
    /\ user_by_name(us, u) # NoneVal
    /\ verify_password(password, us[user_by_name(us, u)].password_hash,
                       us[user_by_name(us, u)].password_salt)

\* u == FIXED_USER and password == FIXED_PASS
FixedLogin(us, u, password) == u = FIXED_USER /\ password = FIXED_PASS

\* The row of the users table that verify_user found, checked against password
StoredLogin(us, u, password, caught, fault) ==
    LET id == user_by_name(us, u) IN
    IF fault = "read"
    THEN (IF caught THEN UOut(FALSE, FALSE, "read", "", us, NoUser)
          ELSE UOut(FALSE, TRUE, "read", "", us, NoUser))
    ELSE IF id = NoneVal THEN UOut(FALSE, FALSE, "none", "", us, NoUser)
    ELSE IF verify_password(password, us[id].password_hash, us[id].password_salt)
    THEN UOut(TRUE, FALSE, "none", "", us,
              [username |-> us[id].username, is_admin |-> us[id].is_admin])
    ELSE UOut(FALSE, FALSE, "none", "", us, NoUser)

\* verify_user(username, password): the SELECT runs under no try
verify_user_run(us, username, password, fault) ==
    LET u == Normalize(username) IN
    IF FixedLogin(us, u, password)
    THEN UOut(TRUE, FALSE, "none", "", us, [username |-> FIXED_USER, is_admin |-> TRUE])
    ELSE StoredLogin(us, u, password, FALSE, fault)

\* The first verify_user of the file: the lookup runs under try/except Exception
verify_user_v1_run(us, username, password, fault) ==
    LET u == Normalize(username) IN
    IF FixedLogin(us, u, password)
    THEN UOut(TRUE, FALSE, "none", "", us, [username |-> u, is_admin |-> TRUE])
    ELSE StoredLogin(us, u, password, TRUE, fault)

ReadFaults == {"none", "read"}

verify_user(username, password, fault) ==
    /\ last' = UserResult("verify_user",
                          verify_user_run(users, username, password, fault), username)
    /\ UNCHANGED <<running, session, products, next_id, sales, invoices, stock_check, cur_items, clock,
                   users, next_uid, ledger, snap>>

verify_user_v1(username, password, fault) ==
    /\ last' = UserResult("verify_user",
                          verify_user_v1_run(users, username, password, fault), username)
    /\ UNCHANGED <<running, session, products, next_id, sales, invoices, stock_check, cur_items, clock,
                   users, next_uid, ledger, snap>>

\* ------------------------------------------------------------ session / pages
\* options = ["Vender producto", "factura de compra", "Reponer", "Inventario"]
options == {"Vender producto", "factura de compra", "Reponer", "Inventario"}

\* The pages main dispatches to
Pages == options \cup {"Usuarios"}

\* The entries of the first main's menu that draw a page
Pages_v1 == {"Factura de compra", "Historial", "Inventario"}

\* the login screen never drawn
NeedsLogin_never(user) == FALSE

\* if not st.session_state.get("auth_user"): login_screen(); return
NeedsLogin(user) == user = NoUser

\* setdefault("page", ...) and the if/elif chain of main: the page drawn, which
\* is also the page kept
Dispatch(pg) == IF pg \in Pages THEN pg ELSE "Vender producto"

\* One run of main on a session that holds user and pg
main_run(user, pg) ==
    IF NeedsLogin(user) THEN [page |-> pg, shown |-> "login"]
    ELSE [page |-> Dispatch(pg), shown |-> Dispatch(pg)]

SessionStep(op) == [NoCall EXCEPT !.op = op, !.ok = TRUE]

store == <<products, next_id, sales, invoices, stock_check, cur_items, clock, users,
           next_uid, ledger, snap>>

\* The script run from the top with no widget touched
main ==
    /\ auth_user' = auth_user
    /\ page' = main_run(auth_user, page).page
    /\ shown' = main_run(auth_user, page).shown
    /\ last' = SessionStep("main")
    /\ UNCHANGED <<running, store>>

\* "Entrar" of login_screen; st.rerun() runs main again on the new session
login_screen(u, p, fault) ==
    /\ shown = "login"
    /\ LET r == verify_user_run(users, u, p, fault)
           user == IF r.ok THEN r.user ELSE auth_user
           pg == IF r.ok THEN "Vender producto" ELSE page
       IN  /\ auth_user' = user
           /\ page' = IF r.ok THEN main_run(user, pg).page ELSE page
           /\ shown' = IF r.ok THEN main_run(user, pg).shown ELSE "login"
           /\ last' = UserResult("login_screen", r, u)
    /\ UNCHANGED <<running, store>>

\* on_change of the sidebar radio, then the run of main
_on_nav_change(nav) ==
    /\ shown \in Pages
    /\ auth_user' = auth_user
    /\ page' = main_run(auth_user, nav).page
    /\ shown' = main_run(auth_user, nav).shown
    /\ last' = SessionStep("_on_nav_change")
    /\ UNCHANGED <<running, store>>

\* on_click of "Usuarios", then the run of main
_go_usuarios ==
    /\ shown \in Pages
    /\ auth_user' = auth_user
    /\ page' = main_run(auth_user, "Usuarios").page
    /\ shown' = main_run(auth_user, "Usuarios").shown
    /\ last' = SessionStep("_go_usuarios")
    /\ UNCHANGED <<running, store>>

\* on_click of "Cerrar sesión", then the run of main
_logout ==
    /\ shown \in Pages
    /\ auth_user' = NoUser
    /\ page' = main_run(NoUser, "Vender producto").page
    /\ shown' = main_run(NoUser, "Vender producto").shown
    /\ last' = SessionStep("_logout")
    /\ UNCHANGED <<running, store>>

\* The first main of the file: the user under session_state["user"], the page
\* the value of the radio, no page kept in the session
main_v1(menu) ==
    /\ shown \in Pages_v1 \cup {"none", "login"}
    /\ IF auth_user = NoUser
       THEN /\ shown' = "login"
            /\ UNCHANGED <<auth_user, page>>
       ELSE IF menu = "Salir"
       THEN /\ shown \in Pages_v1
            /\ auth_user' = NoUser
            /\ page' = NoPage
            /\ shown' = "login"
       ELSE /\ shown' = menu
            /\ UNCHANGED <<auth_user, page>>
    /\ last' = SessionStep("main_v1")
    /\ UNCHANGED <<running, store>>

\* "Entrar" of ui_login; the radio of the next run stands at its first entry
ui_login(u, p, fault) ==
    /\ shown = "login"
    /\ LET r == verify_user_v1_run(users, u, p, fault) IN
       /\ auth_user' = IF r.ok THEN r.user ELSE auth_user
       /\ shown' = IF r.ok THEN "Factura de compra" ELSE "login"
       /\ last' = UserResult("ui_login", r, u)
    /\ UNCHANGED <<page, running, store>>

\* ------------------------------------------------------------------ claims
Stock(p) == products[p].stock

\* C1: after any sequence of restock_with_invoice and register_sale calls every
\* product's stock is >= 0, and a register_sale call whose qty exceeds the
\* current stock is rejected and leaves the stock unchanged.
C1_StockNonNegative ==
    /\ [](\A p \in DOMAIN products : Stock(p) >= 0)
    /\ [][\A p \in Pids, q \in Qtys, f \in SaleFaults :
            (last'.op = "register_sale" /\ p \in DOMAIN products /\ q > Stock(p)
                /\ register_sale(p, q, f))
               => (~last'.ok /\ products'[p].stock = Stock(p))]_vars

\* A sale asking for more than the stock on hand has just been rejected.
C1_Witness ==
    /\ last.op = "register_sale" /\ last.msg = "stock insuficiente"
    /\ \E p \in DOMAIN products : Stock(p) > 0

\* C2: register_sale is all-or-nothing.  A call either returns success with the
\* stock decremented by qty and exactly one Sale row for it added, or returns
\* failure with products and sales as before the call; so a failure of the Sale
\* insert after the decrement leaves the stock at its value before the call.
C2_SaleAtomic ==
    [][\A p \in Pids, q \in Qtys, f \in SaleFaults :
          (last'.op = "register_sale" /\ register_sale(p, q, f)) =>
             \/ /\ last'.ok
                /\ products' = [products EXCEPT ![p].stock = @ - q]
                /\ Len(sales') = Len(sales) + 1
                /\ SubSeq(sales', 1, Len(sales)) = sales
                /\ sales'[Len(sales')].product_id = p
                /\ sales'[Len(sales')].qty = q
             \/ /\ ~last'.ok
                /\ products' = products
                /\ sales' = sales]_vars

\* The Sale insert has just failed after the stock decrement was executed.
C2_Witness ==
    /\ last.op = "register_sale" /\ last.at = "insert" /\ ~last.ok
    /\ \E p \in DOMAIN products : Stock(p) > 0

\* C3: restock_with_invoice with an invoice total applies the product update and
\* the Invoice insert atomically: a call leaves either both (the product row
\* updated and one Invoice row added) or neither.
C3_RestockAtomic ==
    [][\A p \in Pids, q \in Qtys, t \in Totals \ {NoneVal}, pr \in OptPrices,
          f \in RestockFaults :
          (last'.op = "restock_with_invoice" /\ restock_with_invoice(p, q, t, pr, f)) =>
             \/ products' = products /\ invoices' = invoices
             \/ products' # products /\ Len(invoices') = Len(invoices) + 1]_vars

\* C4 (as stated): at every reachable state each product's stock equals the
\* stock it was created with, plus the quantities of all restocks and
\* purchase-invoice lines applied to it, minus the quantities of all sales
\* registered for it.
C4_StockIsNetSinceCreation ==
    \A p \in DOMAIN products : Stock(p) = ledger[p].net

\* C4 (amended): at every reachable state each product's stock equals the stock
\* it was last given by add_product or update_product_by_code (at its creation,
\* or by a later call that wrote the stock), plus the quantities of the restocks
\* and purchase-invoice lines whose stock update was committed since then, minus
\* the quantities of the sales registered since then.
C4_StockIsNetSinceLastSet ==
    \A p \in DOMAIN products : Stock(p) = ledger[p].based

\* A product has stock after an add_product or update_product_by_code call
\* overwrote its stock, a purchase-invoice line was saved for it and it was sold.
C4_Witness ==
    \E p \in DOMAIN products :
        /\ Stock(p) > 0
        /\ ledger[p].net # ledger[p].based
        /\ \E i \in 1 .. Len(sales) : sales[i].product_id = p
        /\ \E i \in 1 .. Len(invoices) :
              invoices[i].product_id = p /\ invoices[i].batch_id # NoneVal

\* C5: a successful restock_with_invoice with invoice total T and quantity Q > 0
\* leaves the product's cost at T/Q rounded to 4 decimals (the multiple of
\* 1/Scale nearest to T/Q), whatever the cost was before.
C5_UnitCostDerived ==
    [][\A p \in Pids, q \in Qtys, t \in Totals \ {NoneVal}, pr \in OptPrices,
          f \in RestockFaults :
          (last'.ok /\ last'.msg = "stock y factura"
             /\ restock_with_invoice(p, q, t, pr, f)) =>
             LET c == products'[p].cost
                 d == c * q - t * Scale
             IN  q > 0 /\ 2 * d < q /\ 2 * (0 - d) < q]_vars

\* A restock with an invoice total has succeeded where T/Q is not a multiple of
\* 1/Scale, on a product that had another cost.
C5_Witness ==
    /\ last.op = "restock_with_invoice" /\ last.ok /\ last.msg = "stock y factura"
    /\ invoices # <<>>
    /\ LET i == invoices[Len(invoices)] IN
          /\ (i.invoice_total * Scale) % i.qty # 0
          /\ i.product_id \in DOMAIN products
          /\ products[i.product_id].cost = i.unit_cost

\* C6: a successful restock_with_invoice with quantity q, no invoice total and no
\* new price adds q to the product's stock and changes nothing else: its cost and
\* price, the other products, the Invoice rows and the Sale rows stay as they were.
C6_RestockOnlyStock ==
    [][\A p \in Pids, q \in Qtys, f \in RestockFaults :
          (last'.ok /\ last'.msg = "stock"
             /\ restock_with_invoice(p, q, NoneVal, NoneVal, f)) =>
             /\ products' = [products EXCEPT ![p].stock = @ + q]
             /\ invoices' = invoices
             /\ sales' = sales]_vars

\* A restock without invoice total has succeeded on a product with a cost and a
\* price, no Invoice row exists, and another product exists.
C6_Witness ==
    /\ last.op = "restock_with_invoice" /\ last.ok /\ last.msg = "stock"
    /\ invoices = <<>>
    /\ \E p \in DOMAIN products :
          /\ Stock(p) > 0 /\ products[p].cost > 0 /\ products[p].price \in Prices
    /\ Cardinality(DOMAIN products) > 1

\* The Sale rows of product p dated strictly after time c, and its Invoice rows
SalesOfAfter(p, c) ==
    SelectSeq(sales, LAMBDA row : row.product_id = p /\ row.sold_at > c)

InvoicesOfAfter(p, c) ==
    SelectSeq(invoices, LAMBDA row : row.product_id = p /\ row.created_at > c)

\* The inventory page on display, and the instant its cut date ends
Shown == last.op = "page_inventory"

ShownCutoff == last.view.cut_date * TicksPerDay + TicksPerDay - 1

\* C7: for every product and every cutoff, the inventory-at-date computation
\* yields max(0, currentStock + S - I), S the sum of qty of the product's Sale
\* rows with sold_at strictly after the cutoff and I the sum of qty of its
\* Invoice rows with created_at strictly after the cutoff.
C7_InventoryAtDate ==
    Shown =>
        /\ DOMAIN last.view.stock_at_cut = DOMAIN products
        /\ \A p \in DOMAIN products :
              last.view.stock_at_cut[p] =
                 Max(0, Stock(p) + SumQty(SalesOfAfter(p, ShownCutoff))
                                 - SumQty(InvoicesOfAfter(p, ShownCutoff)))

\* The page shows a positive stock at the cutoff for a product sold and invoiced
\* after it.
C7_Witness ==
    /\ Shown
    /\ \E p \in DOMAIN products :
          /\ SalesOfAfter(p, ShownCutoff) # <<>>
          /\ InvoicesOfAfter(p, ShownCutoff) # <<>>
          /\ last.view.stock_at_cut[p] > 0

\* C8: when every Sale and Invoice row of a product is dated on or before the
\* cutoff, the inventory-at-date result for that product equals its current stock.
C8_NothingAfterCutoff ==
    Shown =>
        \A p \in DOMAIN products :
            (/\ \A i \in 1 .. Len(sales) :
                   sales[i].product_id = p => sales[i].sold_at <= ShownCutoff
             /\ \A i \in 1 .. Len(invoices) :
                   invoices[i].product_id = p => invoices[i].created_at <= ShownCutoff)
            => last.view.stock_at_cut[p] = Stock(p)

\* The page is shown, after the cutoff has passed, for a product with stock that
\* has a Sale row dated at the very instant of the cutoff and none after it.
C8_Witness ==
    /\ Shown /\ clock > ShownCutoff
    /\ \E p \in DOMAIN products :
          /\ Stock(p) > 0
          /\ \E i \in 1 .. Len(sales) :
                sales[i].product_id = p /\ sales[i].sold_at = ShownCutoff
          /\ SalesOfAfter(p, ShownCutoff) = <<>>
          /\ InvoicesOfAfter(p, ShownCutoff) = <<>>

\* C9 (as stated): in every history in which each stock increase made after the
\* cutoff is recorded by an Invoice row, the inventory-at-date result for a
\* product equals the stock the product had at the cutoff, whatever sales,
\* invoice-backed restocks and batch deletions happened after the cutoff.
C9_InventoryIsStockAtCutoff ==
    (Shown /\ last.view.cut_date \in DOMAIN snap) =>
        \A p \in DOMAIN products \cap DOMAIN snap[last.view.cut_date] :
            ledger[p].incr <= ShownCutoff
            => last.view.stock_at_cut[p] = snap[last.view.cut_date][p]

\* C9 (amended): in every history in which, after the cutoff, each increase of a
\* product's stock is recorded by an Invoice row that still exists and each
\* decrease of it by a Sale row (no batch deletion and no product update lowered
\* it), the inventory-at-date result for the product equals the stock the
\* product had at the cutoff.
C9_InventoryIsStockAtCutoffWhenRecorded ==
    (Shown /\ last.view.cut_date \in DOMAIN snap) =>
        \A p \in DOMAIN products \cap DOMAIN snap[last.view.cut_date] :
            (ledger[p].incr <= ShownCutoff /\ ledger[p].cut <= ShownCutoff)
            => last.view.stock_at_cut[p] = snap[last.view.cut_date][p]

\* The page is shown for a past day, for a product that had stock at the end of
\* that day and was sold and invoiced after it, every movement recorded.
C9_Witness ==
    /\ Shown /\ last.view.cut_date \in DOMAIN snap
    /\ \E p \in DOMAIN products \cap DOMAIN snap[last.view.cut_date] :
          /\ snap[last.view.cut_date][p] > 0
          /\ ledger[p].incr <= ShownCutoff /\ ledger[p].cut <= ShownCutoff
          /\ SalesOfAfter(p, ShownCutoff) # <<>>
          /\ InvoicesOfAfter(p, ShownCutoff) # <<>>

\* The Invoice rows of batch b for product p
LinesOf(b, p) ==
    SelectSeq(invoices, LAMBDA row : row.batch_id = b /\ row.product_id = p)

\* C10: delete_invoice_batch(b, adjust_stock=True) on an existing batch b, the
\* store not failing, sets every product's stock to max(0, stock - sum of qty of
\* b's lines for that product), removes every Invoice row whose batch_id is b and
\* no other, and returns success; no stock becomes negative, also when sales
\* happened between the save of the batch and its deletion.
C10_BatchDeletionReverts ==
    [][\A b \in 0 .. MaxClock :
          (/\ last'.op = "delete_invoice_batch"
           /\ \E i \in 1 .. Len(invoices) : invoices[i].batch_id = b
           /\ delete_invoice_batch(b, TRUE, "none"))
          => /\ last'.ok
             /\ DOMAIN products' = DOMAIN products
             /\ \A p \in DOMAIN products :
                   /\ products'[p] =
                        [products[p] EXCEPT !.stock = Max(0, @ - SumQty(LinesOf(b, p)))]
                   /\ products'[p].stock >= 0
             /\ \A i \in 1 .. Len(invoices') : invoices'[i].batch_id # b
             /\ \A i \in 1 .. Len(invoices) :
                   invoices[i].batch_id # b
                   => \E j \in 1 .. Len(invoices') : invoices'[j] = invoices[i]
             /\ Len(invoices') < Len(invoices)]_vars

\* A batch has just been deleted with its stock reverted, for a product that was
\* sold after the save: the stock is 0 and the deletion took less from it than
\* the batch had added.
C10_Witness ==
    /\ last.op = "delete_invoice_batch"
    /\ last.msg = "lote eliminado y stock revertido"
    /\ invoices = <<>>
    /\ \E p \in DOMAIN products :
          /\ Stock(p) = 0
          /\ ledger[p].cut = NoneVal
          /\ \E i \in 1 .. Len(sales) : sales[i].product_id = p

\* C11: a register_sale call that is rejected (qty <= 0, unknown product id, or
\* stock < qty) returns (False, message, 0.0) and leaves every product and the
\* Sale rows unchanged; in the insufficient-stock case the message carries the
\* stock available at that moment.
C11_SaleRejected ==
    [][\A p \in Pids, q \in Qtys, f \in SaleFaults :
          (/\ last'.op = "register_sale"
           /\ (q <= 0 \/ p \notin DOMAIN products \/ Stock(p) < q)
           /\ register_sale(p, q, f))
          => /\ ~last'.ok /\ ~last'.raised
             /\ last'.msg # ""
             /\ last'.ret.total = 0
             /\ products' = products
             /\ sales' = sales
             /\ (q > 0 /\ p \in DOMAIN products)
                   => (last'.msg = "stock insuficiente"
                       /\ last'.ret.avail = Stock(p))]_vars

\* A sale was rejected for lack of stock on a product that has some, another
\* product having a different stock, after an earlier sale was recorded.
C11_Witness ==
    /\ last.op = "register_sale" /\ ~last.ok
    /\ sales # <<>>
    /\ last.ret.avail > 0
    /\ \E p \in DOMAIN products : Stock(p) = last.ret.avail
    /\ \E p \in DOMAIN products : Stock(p) # last.ret.avail

\* C12: a successful register_sale(p, q) decrements the stock of p by exactly q,
\* adds exactly one Sale row (product p, qty q, total = price of p at the time of
\* the call times q, rounded to 2 decimals), returns that total, and changes no
\* other product and no Invoice row.
C12_SaleRecorded ==
    [][\A p \in Pids, q \in Qtys, f \in SaleFaults :
          (last'.op = "register_sale" /\ last'.ok /\ register_sale(p, q, f))
          => LET row == sales'[Len(sales')]
                 d == row.total - products[p].price * q
             IN  /\ products' = [products EXCEPT ![p].stock = @ - q]
                 /\ Len(sales') = Len(sales) + 1
                 /\ SubSeq(sales', 1, Len(sales)) = sales
                 /\ row.product_id = p /\ row.qty = q
                 /\ row.total % (Scale \div 100) = 0
                 /\ 2 * d <= Scale \div 100 /\ 2 * (0 - d) <= Scale \div 100
                 /\ last'.ret.total = row.total
                 /\ invoices' = invoices]_vars

\* A sale has succeeded whose price times quantity is not a multiple of 0.01,
\* while another product and an Invoice row exist.
C12_Witness ==
    /\ last.op = "register_sale" /\ last.ok
    /\ sales # <<>> /\ invoices # <<>>
    /\ last.ret.total = sales[Len(sales)].total
    /\ Cardinality(DOMAIN products) > 1
    /\ \E p \in DOMAIN products :
          /\ sales[Len(sales)].product_id = p
          /\ (products[p].price * sales[Len(sales)].qty) % (Scale \div 100) # 0

\* C13: a restock_with_invoice call that is rejected (qty <= 0, negative invoice
\* total, negative new price, or unknown product id) returns (False, message) and
\* leaves every product and the Invoice rows unchanged; with qty = 0 no error of
\* the unit-cost division escapes the call.
C13_RestockRejected ==
    [][\A p \in Pids, q \in Qtys, t \in Totals \cup NegTotals,
          pr \in OptPrices \cup NegPrices, f \in RestockFaults :
          (/\ last'.op = "restock_with_invoice"
           /\ \/ q <= 0
              \/ (t # NoneVal /\ t < 0)
              \/ (pr # NoneVal /\ pr < 0)
              \/ p \notin DOMAIN products
           /\ restock_with_invoice(p, q, t, pr, f))
          => /\ ~last'.ok /\ ~last'.raised
             /\ last'.msg # ""
             /\ products' = products
             /\ invoices' = invoices]_vars

\* A restock with quantity 0 has just been rejected while a product with stock
\* and an Invoice row exist.
C13_Witness ==
    /\ last.op = "restock_with_invoice" /\ ~last.ok /\ last.msg = "cantidad"
    /\ invoices # <<>>
    /\ \E p \in DOMAIN products : Stock(p) > 0

\* No two products hold the same code
CodesUnique(ps) == \A i, j \in DOMAIN ps : ps[i].code = ps[j].code => i = j

\* C14: a successful add_product with a code that a product already holds leaves
\* that product under the same id with the data passed, the set of products
\* unchanged and the Sale and Invoice rows as they were (so they still reference
\* it); with a new code it adds exactly one product and changes no other; after
\* it no two products share a code.  Both add_product functions of the file are
\* covered.
C14_AddProductUpserts ==
    [][\A c \in Codes, pr \in Prices, s \in 0 .. 1, co \in UnitCosts,
         pg \in BOOLEAN, f \in WriteFaults :
          (/\ last'.op = "add_product" /\ last'.ok
           /\ (add_product(c, pr, s, co, f) \/ add_product_v1(c, pr, s, co, pg, f)))
          => LET id == get_product_by_code(DB, c) IN
             /\ id # NoneVal =>
                    /\ DOMAIN products' = DOMAIN products
                    /\ products'[id].code = c
                    /\ \A i \in DOMAIN products \ {id} : products'[i] = products[i]
             /\ id = NoneVal =>
                    \E n \in Pids \ DOMAIN products :
                        /\ DOMAIN products' = DOMAIN products \cup {n}
                        /\ products'[n].code = c
                        /\ \A i \in DOMAIN products : products'[i] = products[i]
             /\ sales' = sales
             /\ invoices' = invoices
             /\ CodesUnique(products')]_vars

\* The product is referenced by a Sale row or by an Invoice row
Referenced(p) ==
    \/ \E i \in 1 .. Len(sales) : sales[i].product_id = p
    \/ \E i \in 1 .. Len(invoices) : invoices[i].product_id = p

\* C15: delete_product on a product that a Sale row or an Invoice row references
\* fails and leaves the products as they were, so that after it every Sale row
\* and every Invoice row that referenced an existing product still does.
C15_DeleteBlockedByDependents ==
    [][\A p \in Pids, f \in WriteFaults :
          (/\ last'.op = "delete_product"
           /\ p \in DOMAIN products /\ Referenced(p)
           /\ delete_product(p, f))
          => /\ ~last'.ok
             /\ products' = products
             /\ \A i \in 1 .. Len(sales') :
                    sales'[i].product_id \in DOMAIN products
                       => sales'[i].product_id \in DOMAIN products'
             /\ \A i \in 1 .. Len(invoices') :
                    invoices'[i].product_id \in DOMAIN products
                       => invoices'[i].product_id \in DOMAIN products']_vars

\* The text has no space at either end and no upper-case letter
Normalized(text) ==
    /\ text # <<>> => (text[1] # " " /\ text[Len(text)] # " ")
    /\ \A i \in 1 .. Len(text) : text[i] \notin DOMAIN LowerCase

\* C16: create_user stores the username trimmed and in lower case; a create_user
\* whose normalized username is that of an existing user fails, and the users
\* table (so the existing user's hash, salt and admin flag) stays as it was.
\* Both create_user functions of the file are covered.
C16_DuplicateUserRejected ==
    [][last'.op = "create_user" =>
          LET u == lower(strip(last'.arg)) IN
          /\ (\E i \in DOMAIN users : users[i].username = u)
                 => (~last'.ok /\ users' = users)
          /\ ~last'.ok => users' = users
          /\ last'.ok =>
                 \E i \in DOMAIN users' \ DOMAIN users :
                     /\ users'[i].username = u
                     /\ Normalized(users'[i].username)
                     /\ DOMAIN users' = DOMAIN users \cup {i}
                     /\ \A j \in DOMAIN users : users'[j] = users[j]]_vars

\* A create_user with the name " A" was refused, the table holding the
\* administrator "a"
C16_Witness ==
    /\ last.op = "create_user" /\ ~last.ok /\ last.at = "unique"
    /\ last.arg = <<" ", "A">>
    /\ \E i \in DOMAIN users : users[i].is_admin /\ users[i].username = <<"a">>

\* C17: whatever the users table holds, and whether or not the store can be
\* read, verify_user with the fixed username and the fixed password returns
\* success with is_admin true.  Both verify_user functions of the file are covered.
C17_FixedUserAlwaysLogsIn ==
    [][last'.op = "verify_user" =>
       \A f \in ReadFaults :
          (\/ verify_user(FIXED_USER, FIXED_PASS, f)
           \/ verify_user_v1(FIXED_USER, FIXED_PASS, f))
          => /\ last'.ok /\ ~last'.raised
             /\ last'.user.username = FIXED_USER
             /\ last'.user.is_admin]_vars

\* The fixed user logged in as administrator while the table holds a user of
\* that name with another password and no admin flag
C17_Witness ==
    /\ last.op = "verify_user" /\ last.ok
    /\ last.user = [username |-> FIXED_USER, is_admin |-> TRUE]
    /\ \E i \in DOMAIN users :
          /\ users[i].username = FIXED_USER
          /\ ~users[i].is_admin
          /\ users[i].password_hash.password # FIXED_PASS

\* invoice_total / qty rounded to 4 decimals, for a row of the invoices table.
\* The total of a row of restock_with_invoice (no batch_id) is in whole currency
\* units, the total of a purchase-invoice line in units of 1/Scale.
DerivedUnitCost(row) ==
    IF row.batch_id = NoneVal
    THEN RoundDiv(row.invoice_total * Scale, row.qty)
    ELSE RoundDiv(row.invoice_total, row.qty)

\* C18: every Invoice row in the store, written by restock_with_invoice or by the
\* save of a purchase invoice, has unit_cost = invoice_total / qty rounded to 4
\* decimals.
C18_UnitCostDerivedEverywhere ==
    \A i \in 1 .. Len(invoices) : invoices[i].unit_cost = DerivedUnitCost(invoices[i])

\* C19: the Invoice rows a purchase-invoice save writes all carry its batch_id,
\* and after the save that batch holds exactly one row per item of the invoice.
C19_BatchIsOneInvoice ==
    [][(last'.op = "save_invoice" /\ last'.ok) =>
          /\ \A i \in Len(invoices) + 1 .. Len(invoices') :
                 invoices'[i].batch_id = BatchId(clock)
          /\ Len(BatchLines([invoices |-> invoices'], BatchId(clock))) = Len(cur_items)]_vars

\* The operations that report their outcome as (success, message)
CoreOps == {"add_product", "update_product_by_code", "delete_product",
            "restock_with_invoice", "register_sale", "delete_invoice_batch",
            "create_user", "verify_user"}

\* C20: a core operation during which the store failed ended with a result, no
\* exception having escaped it.
C20_StoreFailureIsReported ==
    (last.op \in CoreOps /\ last.at # "none") => ~last.raised

\* C21: a purchase-invoice save during which the store failed leaves every
\* product that existed with the stock, cost and price it had, and no Invoice row
\* of the save in the store.
C21_SaveAllOrNothing ==
    [][(last'.op = "save_invoice" /\ last'.at # "none") =>
          /\ \A p \in DOMAIN products :
                 /\ p \in DOMAIN products'
                 /\ products'[p].stock = products[p].stock
                 /\ products'[p].cost = products[p].cost
                 /\ products'[p].price = products[p].price
          /\ invoices' = invoices]_vars

\* Every process has made its call and the call has returned
AllReturned == \A i \in Procs : calls[i].op # "none" /\ calls[i].pc = "done"

\* The two calls are register_sale calls on product p
TwoSalesOf(p) ==
    \A i \in Procs : calls[i].op = "register_sale" /\ calls[i].product_id = p

\* The quantity of the calls that returned success
SoldOk == (IF calls[1].ok THEN calls[1].qty ELSE 0) + (IF calls[2].ok THEN calls[2].qty ELSE 0)

\* C22: while and after two register_sale calls on one product run side by side,
\* the stock of the product is >= 0, and the quantities of the calls that
\* returned success add up to no more than the stock before the two calls.
C22_NoOverselling ==
    \A p \in DOMAIN products :
        TwoSalesOf(p) =>
            /\ Stock(p) >= 0
            /\ AllReturned => SoldOk <= calls[1].before

\* C23: after a restock_with_invoice(p, q1) and a register_sale(p, q2) ran side by
\* side and both returned success, the stock of p is the stock before the two
\* calls + q1 - q2.
C23_RestockKeepsSale ==
    (/\ AllReturned
     /\ calls[1].op = "restock_with_invoice" /\ calls[1].ok
     /\ calls[2].op = "register_sale" /\ calls[2].ok
     /\ calls[1].product_id = calls[2].product_id)
    => Stock(calls[1].product_id) = calls[1].before + calls[1].qty - calls[2].qty

\* C24: a successful restock_with_invoice call with an invoice total appends
\* exactly one Invoice row: that product, that quantity, that total, unit_cost
\* the cost the product has after the call, the new price given (or none), the
\* user of the session, no batch id.  A successful call without an invoice total
\* appends no row.
C24_RestockInvoiceRow ==
    [][\A p \in Pids, q \in Qtys, t \in Totals, pr \in OptPrices \cup {Scale},
          f \in RestockFaults :
          (last'.op = "restock_with_invoice" /\ last'.ok
             /\ restock_with_invoice(p, q, t, pr, f)) =>
             IF t = NoneVal THEN invoices' = invoices
             ELSE /\ Len(invoices') = Len(invoices) + 1
                  /\ SubSeq(invoices', 1, Len(invoices)) = invoices
                  /\ LET i == invoices'[Len(invoices')] IN
                        /\ i.product_id = p /\ i.qty = q /\ i.invoice_total = t
                        /\ i.unit_cost = products'[p].cost
                        /\ i.new_price = pr
                        /\ i.created_by = IF auth_user = NoUser THEN NoCreator
                                          ELSE auth_user.username
                        /\ i.batch_id = NoneVal]_vars

\* A logged in user has restocked with an invoice total and a new price a product
\* that had another cost, and the one Invoice row carries the user's name.
C24_Witness ==
    /\ last.op = "restock_with_invoice" /\ last.ok /\ last.msg = "stock y factura"
    /\ auth_user # NoUser /\ shown = "Reponer"
    /\ Len(invoices) = 1
    /\ invoices[1].created_by = auth_user.username
    /\ invoices[1].new_price # NoneVal
    /\ invoices[1].unit_cost # Scale

\* C25: in a successful restock_with_invoice call the product's price after the
\* call is the new price when one is given, whether the price before was higher
\* or lower, and the price before the call when none is given.
C25_PriceLastWriteWins ==
    [][\A p \in Pids, q \in Qtys, t \in Totals, pr \in OptPrices \cup {Scale},
          f \in RestockFaults :
          (last'.op = "restock_with_invoice" /\ last'.ok
             /\ restock_with_invoice(p, q, t, pr, f)) =>
             products'[p].price = IF pr = NoneVal THEN products[p].price ELSE pr]_vars

\* Products are created at a price between the two new prices: a restock has
\* lowered the price of one product and a restock has raised the price of another.
C25_Witness ==
    /\ last.op = "restock_with_invoice" /\ last.ok
    /\ \E p1, p2 \in DOMAIN products :
          /\ products[p1].price = Scale /\ products[p2].price = 3 * Scale
          /\ \A pr \in Prices : Scale < pr /\ pr < 3 * Scale

\* The lines of items that carry code c
ItemsOf(items, c) == SelectSeq(items, LAMBDA it : it.code = c)

\* What a purchase of the lines items must leave of the product of each of
\* their codes: the stock it had (0 when the code was unknown) raised by the
\* quantities of the lines, the cost and the price of the last of them
LinesApplied(items) ==
    \A k \in DOMAIN items :
        LET c == items[k].code
            old == get_product_by_code(DB, c)
            new == get_product_by_code([DB EXCEPT !.products = products'], c)
            lines == ItemsOf(items, c)
        IN  /\ new # NoneVal
            /\ products'[new].stock = StockOf(DB, old) + SumQty(lines)
            /\ products'[new].cost = lines[Len(lines)].unit_cost
            /\ products'[new].price = lines[Len(lines)].sale_price

\* C26: a purchase invoice saved with a line (code, qty) creates the product when
\* no product has the code, its stock then being qty; when a product has the
\* code, its stock after the save is its previous stock + qty, and its cost and
\* price are those of the line.  (The model's product rows carry neither iva nor
\* company.)
C26_PurchaseLineAddsStock ==
    [][/\ (last'.op = "save_invoice" /\ last'.ok) => LinesApplied(cur_items)
       /\ (last'.op = "ui_factura_compra" /\ last'.ok) =>
             \A c \in Codes, q \in Qtys, uc \in UnitCosts, sp \in Prices,
                co \in Companies, pg \in BOOLEAN :
                ui_factura_compra(c, q, uc, sp, co, pg, "none") =>
                   LinesApplied(<<[code |-> c, qty |-> q, unit_cost |-> uc,
                                   sale_price |-> sp]>>)]_vars

\* C27: delete_invoice_batch with no batch id, or with a batch id that no Invoice
\* row carries, returns False with a message and changes no product and no
\* Invoice row; with adjust_stock=False on a batch that has rows, the store not
\* failing, it removes the rows of the batch, keeps the other rows and leaves
\* every product as it was.
C27_DeleteBatchNotFound ==
    [][last'.op = "delete_invoice_batch" =>
          \A b \in BatchIds, a \in BOOLEAN :
             (delete_invoice_batch(b, a, "none") \/ delete_invoice_batch_v1(b, a, "none")) =>
                IF b = NoneVal \/ \A i \in DOMAIN invoices : invoices[i].batch_id # b
                THEN /\ ~last'.ok /\ ~last'.raised /\ last'.msg # ""
                     /\ products' = products
                     /\ invoices' = invoices
                ELSE (~a) =>
                     /\ last'.ok
                     /\ products' = products
                     /\ invoices' = SelectSeq(invoices, LAMBDA row : row.batch_id # b)]_vars

\* A deletion without batch id has just been refused while a restock's Invoice
\* row, which has no batch id, and the row of a saved purchase are in the store.
C27_Witness ==
    /\ last.op = "delete_invoice_batch" /\ ~last.ok /\ last.msg = "batch invalido"
    /\ \E i \in DOMAIN invoices : invoices[i].batch_id = NoneVal
    /\ \E i \in DOMAIN invoices : invoices[i].batch_id # NoneVal
    /\ \E p \in DOMAIN products : Stock(p) > 0

\* The rows of table rows at the places S, in their order
Kept(rows, S) == SelectSeq([i \in DOMAIN rows |-> IF i \in S THEN <<rows[i]>> ELSE <<>>],
                           LAMBDA r : r # <<>>)

\* Table new is table old with rows added at its end and none changed
Extended(old, new) == Len(new) >= Len(old) /\ SubSeq(new, 1, Len(old)) = old

\* Table new is table old with some rows removed, the others as they were
Reduced(old, new) ==
    \E S \in SUBSET DOMAIN old : new = [i \in 1 .. Cardinality(S) |-> Kept(old, S)[i][1]]

\* C28: no operation changes a field of a Sale row or of an Invoice row that
\* exists; a Sale row is added only by register_sale; an Invoice row leaves the
\* store only when delete_invoice_batch or wipe_business_data deletes it.
C28_RowsImmutable ==
    [][/\ \/ sales' = sales
          \/ last'.op = "register_sale" /\ Extended(sales, sales')
          \/ Reduced(sales, sales')
       /\ \/ Extended(invoices, invoices')
          \/ /\ last'.op \in {"delete_invoice_batch", "wipe_business_data"}
             /\ Reduced(invoices, invoices')]_vars

\* An Invoice row and a Sale row are in the store after a batch of other Invoice
\* rows was deleted.
C28_Witness ==
    /\ last.op = "delete_invoice_batch" /\ last.ok
    /\ sales # <<>>
    /\ invoices # <<>>

\* C29: a purchase-invoice save gets a batch id that no Invoice row of an earlier
\* save carries, so a successful delete_invoice_batch(b) removes the rows of that
\* one save only, every other Invoice row staying, and lowers the stock of no
\* product but those of the rows it removes.
C29_BatchIsOneSave ==
    [][/\ (last'.op = "save_invoice" /\ last'.ok) =>
             \A i \in DOMAIN invoices : invoices[i].batch_id # BatchId(clock)
       /\ (last'.op = "delete_invoice_batch" /\ last'.ok) =>
             \A b \in BatchIds, a \in BOOLEAN :
                delete_invoice_batch(b, a, "none") =>
                   /\ invoices' = SelectSeq(invoices, LAMBDA row : row.batch_id # b)
                   /\ \A p \in DOMAIN products :
                         (\A i \in DOMAIN invoices :
                             invoices[i].batch_id = b => invoices[i].product_id # p)
                         => products'[p] = products[p]]_vars

\* C30: a page of main (sale, purchase invoice, restock, inventory, users) is
\* drawn only while the session holds a user; the session gets its user only
\* from a login whose verify_user succeeded, and it is the user verify_user
\* returned; a logout leaves the session without user and with the sell page as
\* its page; while the session holds no user every run draws the login screen.
C30_PagesNeedLogin ==
    [][/\ shown' \in Pages \cup Pages_v1 => auth_user' # NoUser
       /\ auth_user' = NoUser => shown' \in {"login", "none"}
       /\ (auth_user' # auth_user /\ auth_user' # NoUser) =>
             /\ shown = "login"
             /\ last'.op \in {"login_screen", "ui_login"}
             /\ \E u \in RawNames, p \in Passwords :
                   \/ /\ last'.op = "login_screen"
                      /\ verify_user_run(users, u, p, "none").ok
                      /\ auth_user' = verify_user_run(users, u, p, "none").user
                   \/ /\ last'.op = "ui_login"
                      /\ verify_user_v1_run(users, u, p, "none").ok
                      /\ auth_user' = verify_user_v1_run(users, u, p, "none").user
       /\ last'.op = "_logout" =>
             /\ auth_user' = NoUser
             /\ page' = "Vender producto"
             /\ shown' = "login"]_vars

\* A user who logged in and restocked with an invoice on the restock page has
\* logged out: the login screen is drawn.
C30_Witness ==
    /\ last.op = "_logout"
    /\ auth_user = NoUser /\ shown = "login" /\ page = "Vender producto"
    /\ \E i \in DOMAIN invoices : invoices[i].created_by # NoCreator

\* ------------------------------------------------------- specifications
\* The store after init_db on a fresh database file.  The products table has
\* CHECK(stock>=0) when the second init_db created it, and none when the first did.
Init ==
    /\ products = <<>>
    /\ next_id = 1
    /\ sales = <<>>
    /\ invoices = <<>>
    /\ stock_check \in BOOLEAN
    /\ cur_items = <<>>
    /\ clock = 0
    /\ last = NoCall
    /\ calls = [i \in Procs |-> Idle]
    /\ lock = 0
    /\ auth_user = NoUser
    /\ page = NoPage
    /\ shown = "none"
    /\ users = <<>>
    /\ next_uid = 1
    /\ ledger = [i \in Pids |->
                    [net |-> 0, based |-> 0, incr |-> NoneVal, cut |-> NoneVal]]
    /\ snap = <<>>

\* The calls, with their arguments drawn from the given sets
DoSale(Q, F) == \E p \in Pids, q \in Q, f \in F : register_sale(p, q, f)

DoAdd(C, S, F) ==
    \E c \in C, pr \in Prices, s \in S, co \in UnitCosts, f \in F :
        add_product(c, pr, s, co, f)

DoAddV1(C, S, F) ==
    \E c \in C, pr \in Prices, s \in S, co \in UnitCosts, pg \in BOOLEAN, f \in F :
        add_product_v1(c, pr, s, co, pg, f)

DoUpdate(C, S, F) ==
    \E c \in C, pr \in Prices, s \in S, co \in UnitCosts, f \in F :
        update_product_by_code(c, pr, s, co, f)

DoDelete == \E p \in Pids, f \in WriteFaults : delete_product(p, f)

DoRestock(Q, T, P, F) ==
    \E p \in Pids, q \in Q, t \in T, pr \in P, f \in F :
        restock_with_invoice(p, q, t, pr, f)

DoAddItem(C, Q) ==
    \E c \in C, q \in Q, uc \in UnitCosts, iva \in Ivas, sp \in Prices :
        AddItem(c, q, uc, iva, sp)

\* A save while the invoices table holds fewer than n rows
DoSaveBelow(n, Co, F) ==
    \E co \in Co, f \in {g \in F : Len(invoices) < n} : save_invoice(co, f)

DoSave(Co, F) == DoSaveBelow(MaxInvoices, Co, F)

DoDeleteBatch(F) ==
    \E b \in BatchIds, a \in BOOLEAN, f \in F : delete_invoice_batch(b, a, f)

DoInventory == \E d \in CutDates : page_inventory(d)

DoCreateUser(N, P, F) ==
    \E n \in N, pw \in P, adm \in BOOLEAN, s \in Salts, f \in F :
        create_user(n, pw, adm, s, f)

DoCreateUserV1(F) ==
    \E n \in RawNames, pw \in Passwords, adm \in BOOLEAN, s \in Salts, f \in F :
        create_user_v1(n, pw, adm, s, f)

DoDeleteUser == \E u \in Uids, f \in UserFaults : delete_user(u, f)

DoWipe == \E k \in BOOLEAN, f \in UserFaults : wipe_business_data(k, f)

DoVerify(N, P, F) == \E n \in N, pw \in P, f \in F : verify_user(n, pw, f)

DoVerifyV1(N, P, F) == \E n \in N, pw \in P, f \in F : verify_user_v1(n, pw, f)

\* Sales: products are created, restocked without invoice, and sold.
NextSale ==
    \/ DoAdd(Codes, {1}, {"none"})
    \/ DoRestock({1}, Totals, {NoneVal}, {"none"})
    \/ DoSale(Qtys, SaleFaults)

SpecSale == Init /\ [][NextSale]_vars

\* Restocks: products are created and restocked, with and without invoice.
NextRestock ==
    \/ DoAdd(Codes, {0}, {"none"})
    \/ DoRestock(Qtys, Totals, OptPrices, RestockFaults)

SpecRestock == Init /\ [][NextRestock]_vars

\* Rejections: one product is created and restocked, with valid and invalid
\* arguments.
NextReject ==
    \/ DoAdd({"A"}, {0}, {"none"})
    \/ DoRestock(Qtys, Totals \cup NegTotals, OptPrices \cup NegPrices, {"none"})

SpecReject == Init /\ [][NextReject]_vars

\* Catalog: products are created by either add_product, restocked with an
\* invoice, sold and deleted.
NextCatalog ==
    \/ DoAdd(Codes, 0 .. 1, WriteFaults)
    \/ DoAddV1(Codes, {1}, WriteFaults)
    \/ DoDelete
    \/ DoRestock({1}, {2}, {NoneVal}, {"none"})
    \/ DoSale({1}, {"none"})

SpecCatalog == Init /\ [][NextCatalog]_vars

\* Stock movements: products are created, edited, restocked, bought on purchase
\* invoices and sold.
NextLedger ==
    \/ DoAdd(Codes, {1}, {"none"})
    \/ DoUpdate({"A"}, {0}, {"none"})
    \/ DoRestock({1}, Totals, {NoneVal}, RestockFaults)
    \/ DoAddItem({"A"}, {1})
    \/ DoSave({"ACME"}, SaveFaults(MaxItems))
    \/ DoSale({1}, {"none"})

\* The store the second init_db created: products carries CHECK(stock>=0)
InitChecked == Init /\ stock_check

SpecLedger == InitChecked /\ [][NextLedger]_vars

\* Inventory: purchase invoices are saved and deleted, products restocked, edited
\* and sold, as the days pass, and the inventory page is opened.
NextInv ==
    \/ DoAddItem({"A"}, {1})
    \/ DoSave({"ACME"}, {<<0, "none">>})
    \/ DoDeleteBatch({"none"})
    \/ DoRestock({1}, Totals, {NoneVal}, {"none"})
    \/ DoUpdate({"A"}, {0}, {"none"})
    \/ DoSale({1}, {"none"})
    \/ Tick
    \/ DoInventory

SpecInv == Init /\ [][NextInv]_vars

\* Purchase invoices: lines are entered and invoices saved, one after another,
\* as the clock runs.
NextBatch ==
    \/ DoAddItem(Codes, {1})
    \/ CancelInvoice
    \/ DoSaveBelow(MaxInvoices + 1, {"ACME"}, {<<0, "none">>})
    \/ Tick

SpecBatch == Init /\ [][NextBatch]_vars

\* Saves: purchase invoices are saved one after another as the clock runs, and
\* their batches deleted.
NextSaves ==
    \/ DoAddItem({"A"}, {1})
    \/ DoSaveBelow(MaxInvoices + 1, {"ACME"}, {<<0, "none">>})
    \/ DoDeleteBatch({"none"})
    \/ Tick

SpecSaves == Init /\ [][NextSaves]_vars

\* A purchase line entered while the invoices table and the history of the stock
\* movements are within their bounds
DoFacturaCompra(C, Q, Co, F) ==
    \E c \in C, q \in Q, uc \in UnitCosts, sp \in Prices, co \in Co, pg \in BOOLEAN,
       f \in {g \in F : /\ Len(invoices) < MaxInvoices + 1
                         /\ \A p \in Pids : ledger[p].net + MaxStock > 0} :
        ui_factura_compra(c, q, uc, sp, co, pg, f)

\* Purchases: products exist with a stock, purchase invoices are entered and
\* saved on the purchase page of either main.
NextPurchase ==
    \/ DoAdd(Codes, {1}, {"none"})
    \/ DoAddItem(Codes, {1})
    \/ DoSaveBelow(MaxInvoices + 1, {"ACME"}, {<<0, "none">>})
    \/ DoFacturaCompra(Codes, {1, 3}, {"ACME"}, {"none", "write", "insert"})

SpecPurchase == Init /\ [][NextPurchase]_vars

DoDeleteBatchV1(F) ==
    \E b \in BatchIds, a \in BOOLEAN, f \in F : delete_invoice_batch_v1(b, a, f)

\* Batches: products are restocked with an invoice, purchase invoices saved, and
\* batches deleted by either delete_invoice_batch.
NextDelete ==
    \/ DoAdd({"A"}, {0}, {"none"})
    \/ DoRestock({1}, {2}, {NoneVal}, {"none"})
    \/ DoAddItem({"A"}, {1})
    \/ DoSaveBelow(MaxInvoices + 1, {"ACME"}, {<<0, "none">>})
    \/ DoDeleteBatch(WriteFaults)
    \/ DoDeleteBatchV1(WriteFaults)

SpecDelete == Init /\ [][NextDelete]_vars

\* Rows: the operations that write Sale rows and Invoice rows, of either
\* program, are called, and those that delete them.
NextRows ==
    \/ DoAdd({"A"}, {1}, {"none"})
    \/ DoRestock({3}, {2}, {NoneVal}, {"none"})
    \/ DoSale({1}, {"none"})
    \/ DoAddItem({"A"}, {1})
    \/ DoSaveBelow(MaxInvoices + 1, {"ACME"}, {<<0, "none">>})
    \/ DoFacturaCompra({"A"}, {1}, {"ACME"}, {"none"})
    \/ \E b \in {BatchId(0), BatchId_v1("ACME", 0)}, a \in BOOLEAN :
          \/ delete_invoice_batch(b, a, "none")
          \/ delete_invoice_batch_v1(b, a, "none")
    \/ \E k \in {TRUE} : wipe_business_data(k, "none")

SpecRows == InitChecked /\ [][NextRows]_vars

\* Store failures: every core operation is called, the store failing or not at
\* each of its steps.
NextFaults ==
    \/ DoAdd({"A"}, {0}, WriteFaults)
    \/ DoUpdate({"A"}, {0}, WriteFaults)
    \/ DoDelete
    \/ DoRestock({3}, {2}, {NoneVal}, RestockFaults)
    \/ DoSale({3}, SaleFaults)
    \/ DoDeleteBatch(WriteFaults)
    \/ DoCreateUser({<<"a">>}, {<<"a", "b", "c", "d">>}, UserFaults)
    \/ DoVerify({<<"a">>}, {<<"a", "b", "c", "d">>}, ReadFaults)

SpecFaults == Init /\ [][NextFaults]_vars

\* The steps of the calls that run side by side
StepCalls ==
    \E i \in Procs :
        \/ register_sale_select(i)
        \/ register_sale_update(i)
        \/ register_sale_commit(i)
        \/ register_sale_busy(i)
        \/ restock_select(i)
        \/ restock_update(i)
        \/ restock_commit(i)
        \/ restock_insert(i)
        \/ restock_busy(i)

\* Two sales of one product at once
DoTwoSales(Q) ==
    \E p \in Pids, q1 \in Q, q2 \in Q :
        StartCalls(Call("register_sale", p, q1, NoneVal, NoneVal),
                   Call("register_sale", p, q2, NoneVal, NoneVal))

\* A restock and a sale of one product at once
DoRestockAndSale(Q, T, P) ==
    \E p \in Pids, q1 \in Q, q2 \in Q, t \in T, pr \in P :
        StartCalls(Call("restock_with_invoice", p, q1, t, pr),
                   Call("register_sale", p, q2, NoneVal, NoneVal))

\* Races: products are created, then two calls are made at once and their steps
\* interleave.
NextRace ==
    \/ Quiet /\ DoAdd(Codes, 1 .. 2, {"none"})
    \/ DoTwoSales(1 .. 2)
    \/ DoRestockAndSale({1}, Totals, OptPrices)
    \/ StepCalls

SpecRace == Init /\ [][NextRace]_vars

\* Users: users are created and deleted, the data wiped, and logins tried.
NextUsers ==
    \/ DoCreateUser(RawNames, Passwords, UserFaults)
    \/ DoCreateUserV1(UserFaults)
    \/ DoDeleteUser
    \/ DoWipe
    \/ DoVerify({FIXED_USER, <<" ", "A">>}, {FIXED_PASS, <<"a", "b", "c", "d">>}, ReadFaults)
    \/ DoVerifyV1({FIXED_USER, <<"a">>}, {FIXED_PASS}, ReadFaults)

SpecUsers == Init /\ [][NextUsers]_vars

DoLogin(N, P, F) == \E n \in N, pw \in P, f \in F : login_screen(n, pw, f)

DoLoginV1(N, P, F) == \E n \in N, pw \in P, f \in F : ui_login(n, pw, f)

DoNav == \E nav \in options : _on_nav_change(nav)

DoMainV1 == \E menu \in Pages_v1 \cup {"Salir"} : main_v1(menu)

\* The session: a user logs in, moves between the pages, creates users on the
\* users page, restocks on the restock page, logs out.
NextSession ==
    \/ main
    \/ DoLogin({FIXED_USER, <<" ", "A">>}, {FIXED_PASS, <<"a", "b", "c", "d">>}, ReadFaults)
    \/ DoNav
    \/ _go_usuarios
    \/ _logout
    \/ DoMainV1
    \/ DoLoginV1({FIXED_USER}, {FIXED_PASS, <<"a", "b", "c", "d">>}, ReadFaults)
    \/ shown = "Usuarios" /\ DoCreateUser({<<"a">>}, {<<"a", "b", "c", "d">>}, {"none"})
    \/ shown = "factura de compra" /\ DoAdd({"A"}, {0}, {"none"})
    \/ shown = "Reponer" /\ DoRestock({1}, Totals, OptPrices, {"none", "insert"})

SpecSession == Init /\ [][NextSession]_vars

\* Prices: products are created and restocked at new prices below and above
\* the price they have.
NextPrices ==
    \/ DoAdd(Codes, {0}, {"none"})
    \/ DoRestock({1}, {NoneVal}, OptPrices \cup {Scale}, {"none", "update"})

SpecPrices == Init /\ [][NextPrices]_vars

Next ==
    \/ DoAdd(Codes \cup {""}, Qtys, WriteFaults)
    \/ DoUpdate(Codes \cup {""}, Qtys, WriteFaults)
    \/ DoDelete
    \/ DoRestock(Qtys, Totals, OptPrices, RestockFaults)
    \/ DoSale(Qtys, SaleFaults)
    \/ DoAddItem(Codes \cup {""}, Qtys)
    \/ CancelInvoice
    \/ DoSave(Companies, SaveFaults(MaxItems))
    \/ DoDeleteBatch(WriteFaults)
    \/ DoInventory
    \/ Tick
    \/ DoAddV1(Codes, Qtys, WriteFaults)
    \/ DoCreateUser(RawNames, Passwords, UserFaults)
    \/ DoCreateUserV1(UserFaults)
    \/ DoDeleteUser
    \/ DoWipe
    \/ DoVerify(RawNames, Passwords, ReadFaults)
    \/ DoVerifyV1(RawNames, Passwords, ReadFaults)
    \/ DoFacturaCompra(Codes, Qtys, Companies, {"none", "write", "insert"})
    \/ DoDeleteBatchV1(WriteFaults)
    \/ DoTwoSales(Qtys)
    \/ DoRestockAndSale(Qtys, Totals, OptPrices)
    \/ StepCalls
    \/ main
    \/ DoLogin(RawNames, Passwords, ReadFaults)
    \/ DoNav
    \/ _go_usuarios
    \/ _logout
    \/ DoMainV1
    \/ DoLoginV1(RawNames, Passwords, ReadFaults)

Spec == Init /\ [][Next]_vars
====
